---- MODULE Spec2Model ----
(***************************************************************************)
(* Model of the WhisperLiveKit streaming server                            *)
(* (src/whisperlivekit/basic_server.py): the three websocket endpoints     *)
(* /asr, /asr-multicam and /asr-smart-store, their results-emission tasks, *)
(* the process-wide registries active_sessions, smart_store_sessions and   *)
(* customer_data, and the audio pipelines (AudioProcessor) they drive;     *)
(* and of the streaming diarization backend                                *)
(* (src/whisperlivekit/diarization/sortformer_backend.py).                 *)
(*                                                                         *)
(* One asyncio event loop runs every handler: the code between two awaits  *)
(* is one atomic step, and an action below is one such step.               *)
(***************************************************************************)
EXTENDS Integers, Sequences, FiniteSets, TLC

\* ------------------------------------------------------------------------
\* Bounds of the model
\* ------------------------------------------------------------------------
MaxMsgs == 3
MaxPairMsgs == 3
MaxChunkMsgs == 5
MaxSeqMsgs == 7
MaxCtlMsgs == 4
MaxNotifyMsgs == 7
MaxEmitMsgs == 3
MaxIsoMsgs == 5
MaxUpsertMsgs == 3
MaxSerialMsgs == 7
MaxWindows == 3
MaxTokens == 2
MaxCalls == 3
MaxStreamWindows == 2
MaxResults == 2
MaxUuid == 1
MaxSeq == 3

\* The seq values of audio_chunk_meta; an absent seq reads as 0 (line 339).
Seqs == 0..MaxSeq

Conns == {1, 2}

\* ------------------------------------------------------------------------
\* Values
\* ------------------------------------------------------------------------
\* Python's None (an absent JSON field), and a JSON array or object used as
\* an id: a truthy value that cannot be hashed, so `x in dict` raises TypeError.
None == "None"
Unhashable == "[list]"

UuidPool == <<"u1", "u2", "u3">>

Truthy(x) == x # None
Hashable(x) == x # Unhashable

\* The audio_stream_start payloads the clients send.
StartMsgs ==
  { [session |-> "s1", customer |-> "c1", stream |-> "t1"],
    [session |-> "s1", customer |-> "c2", stream |-> "t2"],
    [session |-> "s1", customer |-> None, stream |-> "t1"],
    [session |-> None, customer |-> "c1", stream |-> "t1"],
    [session |-> "s1", customer |-> "c1", stream |-> None],
    [session |-> None, customer |-> None, stream |-> None],
    [session |-> Unhashable, customer |-> None, stream |-> None],
    [session |-> Unhashable, customer |-> "c1", stream |-> "t1"] }

\* Finalized line texts a pipeline result can carry.
Texts == {"hello", "sorry", "other"}
HasHello(text) == text = "hello"
HasSorry(text) == text = "sorry"

Endpoints == {"asr", "multicam", "smart"}

\* The payloads of the two-connection runs: two customers of one session,
\* and a payload that is rejected.
PairStartMsgs ==
  { [session |-> "s1", customer |-> "c1", stream |-> "t1"],
    [session |-> "s1", customer |-> "c2", stream |-> "t2"],
    [session |-> None, customer |-> None, stream |-> None] }

\* The payloads of the chunk-sequence runs: two streams of one session.
ChunkStartMsgs ==
  { [session |-> "s1", customer |-> "c1", stream |-> "t1"],
    [session |-> "s1", customer |-> "c2", stream |-> "t2"] }

VARIABLES
  ep,                   \* endpoint each connection was opened on
  pc,                   \* position of each connection handler
  open,                 \* the client side of the connection is still open
  loc,                  \* the handler's local variables
  exit,                 \* how the handler left its message loop
  pipes,                \* every AudioProcessor created so far
  tasks,                \* every results-emission task created so far
  active_sessions,      \* registry of /asr-multicam
  smart_store_sessions, \* registry of /asr-smart-store
  customer_data,        \* customer key -> its customer_info object
  infos,                \* the customer_info objects (dicts held by reference)
  sent,                 \* messages each client received, in order
  api_calls,            \* notifications dispatched, per connection
  warnings,             \* sequence-mismatch warnings logged, per connection
  budget,               \* client messages the run delivers at most
  nmsgs,                \* client messages received so far
  nres,                 \* results produced so far
  nuuid,                \* uuid4 values drawn so far
  diar,                 \* the SortformerDiarization object
  tokens,               \* the token list of the last assign call
  raised,               \* the exception the last diarization call raised
  fed                   \* every frame prediction diarize has stored, in order

vars == <<ep, pc, open, loc, exit, pipes, tasks, active_sessions,
          smart_store_sessions, customer_data, infos, sent, api_calls,
          warnings, budget, nmsgs, nres, nuuid, diar, tokens, raised, fed>>

\* ------------------------------------------------------------------------
\* Helpers
\* ------------------------------------------------------------------------
\* The locals of a handler; frames counts the non-empty binary frames the
\* connection delivered, and numbers them.
InitLocals ==
  [session |-> None, customer |-> None, stream |-> None,
   proc |-> 0, task |-> 0, started |-> FALSE, expected_seq |-> 1,
   frames |-> 0]

NoMsg == [type |-> "none", session |-> None, customer |-> None,
          stream |-> None, pipe |-> 0, rid |-> 0, message |-> None]

\* {"type": "error", "message": ...} with one of the texts of the source.
ErrorMsg(message) == [NoMsg EXCEPT !.type = "error", !.message = message]

RequiredField == "... is required in audio_stream_start"
StartFirst == "Must send audio_stream_start first"
UnknownMessageType == "Unknown message type: ..."
InvalidFormat == "Invalid message format or stream not started"

\* A pipeline: the frames it was handed (0 is the empty frame b""), the
\* results it has produced, how many of them its generator has yielded, the
\* seq values of the audio_chunk_meta messages accepted for its stream, the
\* binary frames received after those messages, and how many of its empty
\* frames were sent by an audio_stream_stop.
NewPipe(c) == [conn |-> c, audio |-> <<>>, cleanups |-> 0, results |-> <<>>,
               yielded |-> 0, seqs |-> <<>>, arrived |-> <<>>, stops |-> 0]

\* A results task: its arguments, its position, the message it is sending,
\* its customer_info and customer-history references, and the identifiers
\* m of the audio_stream_start that created it.
NewTask(c, p, kind, s, cu, st, m) ==
  [conn |-> c, pipe |-> p, kind |-> kind, session |-> s, customer |-> cu,
   stream |-> st, state |-> IF kind = "asr" THEN "waiting" ELSE "new",
   cancel |-> FALSE, pending |-> NoMsg, info |-> 0, hist |-> 0, start |-> m]

\* handle_websocket_results_multicam(websocket, results_generator,
\*                                   session_uuid, stream_id, customer_id)
HandleMulticam(c, p, session_uuid, stream_id, customer_id, m) ==
  NewTask(c, p, "multicam", session_uuid, customer_id, stream_id, m)

\* handle_smart_store_results(websocket, results_generator,
\*                            session_id, customer_id, stream_id)
HandleSmartStore(c, p, session_id, customer_id, stream_id, m) ==
  NewTask(c, p, "smart", session_id, customer_id, stream_id, m)

TaskDone(t) == tasks[t].state \in {"done", "cancelled", "failed"}

Flushed(p) == \E i \in 1..Len(pipes[p].audio) : pipes[p].audio[i] = 0

HasAudio(p) == \E i \in 1..Len(pipes[p].audio) : pipes[p].audio[i] # 0

\* AudioProcessor.process_audio(frame).
ProcessAudio(ps, p, frame) == [ps EXCEPT ![p].audio = Append(@, frame)]

\* Python dicts: d[k] = v, del d[k].
EmptyDict == [k \in {} |-> 0]
DictSet(d, k, v) == [x \in DOMAIN d \cup {k} |-> IF x = k THEN v ELSE d[x]]
DictDel(d, k) == [x \in DOMAIN d \ {k} |-> d[x]]

NoStart == [session |-> None, customer |-> None, stream |-> None]

\* No diarization backend was constructed (the server runs without one).
NoDiarization ==
  [diar_model |-> FALSE, attrs |-> FALSE, frontend |-> FALSE,
   audio_buffer |-> <<>>, processed_signal_offset |-> 0,
   speaker_segments |-> <<>>, windows |-> 0, steps |-> 0, calls |-> 0,
   samples |-> 0, taken |-> <<>>, advances |-> 0, offsets |-> <<>>]

ServerInit(b) ==
  /\ budget = b
  /\ ep = [c \in Conns |-> "none"]
  /\ pc = [c \in Conns |-> "idle"]
  /\ open = [c \in Conns |-> FALSE]
  /\ loc = [c \in Conns |-> InitLocals]
  /\ exit = [c \in Conns |-> [cause |-> "none", started |-> FALSE, proc |-> 0]]
  /\ pipes = <<>>
  /\ tasks = <<>>
  /\ active_sessions = EmptyDict
  /\ smart_store_sessions = EmptyDict
  /\ customer_data = EmptyDict
  /\ infos = <<>>
  /\ sent = [c \in Conns |-> <<>>]
  /\ api_calls = [c \in Conns |-> <<>>]
  /\ warnings = [c \in Conns |-> <<>>]
  /\ nmsgs = 0
  /\ nres = 0
  /\ nuuid = 0

InitWith(b) ==
  /\ ServerInit(b)
  /\ diar = NoDiarization
  /\ tokens = [given |-> <<>>, returned |-> <<>>]
  /\ raised = None
  /\ fed = <<>>

Init == InitWith(MaxMsgs)

\* ------------------------------------------------------------------------
\* Leaving the message loop: the synchronous head of each finally block
\* ------------------------------------------------------------------------
\* `if websocket_task and not websocket_task.done(): websocket_task.cancel()`
CancelTask(ts, t) ==
  IF t # 0 /\ ts[t].state \notin {"done", "cancelled", "failed"}
  THEN [ts EXCEPT ![t].cancel = TRUE]
  ELSE ts

\* The position after the synchronous head of a finally block.
AfterCancel(l) ==
  IF l.task # 0 THEN "fin_await"
  ELSE IF l.proc # 0 THEN "fin_cleanup" ELSE "done"

\* Lines 412-413 evaluate `session_uuid in active_sessions` and
\* `customer_id in ...["customers"]`; hashing a list or dict raises TypeError.
McFinallyRaises(l, as) ==
  /\ Truthy(l.session)
  /\ \/ ~Hashable(l.session)
     \/ /\ l.session \in DOMAIN as
        /\ Truthy(l.customer)
        /\ ~Hashable(l.customer)

\* all(customer["status"] in ["closed", "stopped"] for customer in ...)
AllCustomersClosed(customers) ==
  \A k \in DOMAIN customers : customers[k].status \in {"closed", "stopped"}

\* The all-customers-closed check evaluated on the customers as they were
\* before this handler marked its own customer.
McFinallyRegistry_StaleCheck(l, as) ==
  IF /\ Truthy(l.session) /\ l.session \in DOMAIN as /\ Truthy(l.customer)
     /\ l.customer \in DOMAIN as[l.session].customers
  THEN LET cs == [as[l.session].customers EXCEPT ![l.customer].status = "closed"]
           st == IF AllCustomersClosed(as[l.session].customers)
                 THEN "closed" ELSE as[l.session].status
       IN [as EXCEPT ![l.session] = [customers |-> cs, status |-> st]]
  ELSE as

\* Lines 412-425: mark the handler's customer closed, close the session when
\* every customer of it is closed or stopped.
McFinallyRegistry(l, as) ==
  IF /\ Truthy(l.session) /\ l.session \in DOMAIN as /\ Truthy(l.customer)
     /\ l.customer \in DOMAIN as[l.session].customers
  THEN LET cs == [as[l.session].customers EXCEPT ![l.customer].status = "closed"]
           st == IF AllCustomersClosed(cs) THEN "closed" ELSE as[l.session].status
       IN [as EXCEPT ![l.session] = [customers |-> cs, status |-> st]]
  ELSE as

\* The handler of connection c leaves its loop with locals l: break, a
\* WebSocketDisconnect or any other exception all run the finally block
\* (lines 207-210, 408-429, 753-758).  An exception raised inside the
\* finally block leaves the handler at once.
EnterFinally(c, l, cause) ==
  /\ loc' = [loc EXCEPT ![c] = l]
  /\ exit' = [exit EXCEPT ![c] = [cause |-> cause, started |-> l.started,
                                  proc |-> l.proc]]
  /\ IF ep[c] = "multicam" /\ McFinallyRaises(l, active_sessions)
     THEN /\ pc' = [pc EXCEPT ![c] = "crashed"]
          /\ UNCHANGED <<active_sessions, tasks>>
     ELSE /\ active_sessions' = IF ep[c] = "multicam"
                                THEN McFinallyRegistry(l, active_sessions)
                                ELSE active_sessions
          /\ tasks' = CancelTask(tasks, l.task)
          /\ pc' = [pc EXCEPT ![c] = AfterCancel(l)]

\* ------------------------------------------------------------------------
\* Connections
\* ------------------------------------------------------------------------
\* websocket.accept(); /asr creates its pipeline and results task at once
\* (lines 185-192), the other endpoints start with nothing (237-246, 577-586).
Accept(c, e) ==
  /\ pc[c] = "idle"
  /\ \A d \in Conns : d < c => pc[d] # "idle"
  /\ ep' = [ep EXCEPT ![c] = e]
  /\ open' = [open EXCEPT ![c] = TRUE]
  /\ pc' = [pc EXCEPT ![c] = "recv"]
  /\ IF e = "asr"
     THEN /\ pipes' = Append(pipes, NewPipe(c))
          /\ tasks' = Append(tasks,
                NewTask(c, Len(pipes) + 1, "asr", None, None, None, NoStart))
          /\ loc' = [loc EXCEPT ![c].proc = Len(pipes) + 1,
                                ![c].task = Len(tasks) + 1,
                                ![c].started = TRUE]
     ELSE UNCHANGED <<pipes, tasks, loc>>
  /\ UNCHANGED <<exit, active_sessions, smart_store_sessions,
                 customer_data, infos, sent, api_calls, warnings, budget,
                 nmsgs, nres, nuuid, diar, tokens, raised, fed>>

\* The client closes the connection; the server notices at its next receive
\* or send.
ClientDisconnect(c) ==
  /\ open[c]
  /\ pc[c] \in {"recv", "recv_bytes", "recv_bytes_fb", "stop_flush", "stop_send"}
  /\ open' = [open EXCEPT ![c] = FALSE]
  /\ UNCHANGED <<ep, pc, loc, exit, pipes, tasks, active_sessions,
                 smart_store_sessions, customer_data, infos, sent,
                 api_calls, warnings, budget, nmsgs, nres, nuuid, diar,
                 tokens, raised, fed>>

\* receive_text / receive_bytes raises WebSocketDisconnect (lines 203, 404,
\* 749).
RecvDisconnect(c) ==
  /\ ~open[c]
  /\ pc[c] \in {"recv", "recv_bytes", "recv_bytes_fb"}
  /\ EnterFinally(c, loc[c], "disconnect")
  /\ UNCHANGED <<ep, open, pipes, smart_store_sessions, customer_data,
                 infos, sent, api_calls, warnings, budget, nmsgs, nres,
                 nuuid, diar, tokens, raised, fed>>

\* A client message can be received by the handler of c on endpoint e.
CanRecvText(c, e) ==
  /\ ep[c] = e
  /\ pc[c] = "recv"
  /\ open[c]
  /\ nmsgs < budget

\* ------------------------------------------------------------------------
\* /asr-multicam: audio_stream_start
\* ------------------------------------------------------------------------
ReadyMsg(s, cu, st) ==
  [type |-> "audio_stream_ready", session |-> s, customer |-> cu,
   stream |-> st, pipe |-> 0, rid |-> 0, message |-> None]

\* An entry that exists is kept as it is.
UpsertCustomer_KeepsExisting(as, su, cu, st) ==
  LET old == IF su \in DOMAIN as THEN as[su]
             ELSE [customers |-> EmptyDict, status |-> "active"]
  IN IF cu \in DOMAIN old.customers THEN as
     ELSE DictSet(as, su,
            [old EXCEPT !.customers =
               DictSet(@, cu, [stream_id |-> st, status |-> "active"])])

\* Lines 283-302: create the session when absent, store the customer entry
\* with status active.
UpsertCustomer(as, su, cu, st) ==
  LET old == IF su \in DOMAIN as THEN as[su]
             ELSE [customers |-> EmptyDict, status |-> "active"]
  IN DictSet(as, su,
       [old EXCEPT !.customers =
          DictSet(@, cu, [stream_id |-> st, status |-> "active"])])

\* Lines 256-327.
McStart(c, m) ==
  /\ CanRecvText(c, "multicam")
  /\ ~Truthy(m.session) => nuuid < MaxUuid
  /\ nmsgs' = nmsgs + 1
  /\ nuuid' = IF Truthy(m.session) THEN nuuid ELSE nuuid + 1
  /\ LET su == IF Truthy(m.session) THEN m.session ELSE UuidPool[nuuid + 1]
         cu == IF Truthy(m.customer) THEN m.customer ELSE m.stream
         l1 == [loc[c] EXCEPT !.session = su, !.customer = cu, !.stream = m.stream]
         p == Len(pipes) + 1
         t == Len(tasks) + 1
     IN IF ~Truthy(m.stream) \/ ~Truthy(cu)
        THEN \* error reply, continue
             /\ loc' = [loc EXCEPT ![c] = l1]
             /\ sent' = [sent EXCEPT ![c] = Append(@, ErrorMsg(RequiredField))]
             /\ UNCHANGED <<pc, exit, pipes, tasks, active_sessions>>
        ELSE IF ~Hashable(su) \/ ~Hashable(cu)
        THEN \* TypeError at line 283 or 293, caught at line 406
             /\ EnterFinally(c, l1, "error")
             /\ UNCHANGED <<pipes, sent>>
        ELSE /\ active_sessions' = UpsertCustomer(active_sessions, su, cu, m.stream)
             /\ pipes' = Append(pipes, NewPipe(c))
             /\ sent' = [sent EXCEPT ![c] = Append(@, ReadyMsg(su, cu, m.stream))]
             /\ tasks' = Append(tasks, HandleMulticam(c, p, su, m.stream, cu,
                   [session |-> su, customer |-> cu, stream |-> m.stream]))
             /\ loc' = [loc EXCEPT ![c] = [l1 EXCEPT !.proc = p, !.task = t,
                                                    !.started = TRUE]]
             /\ UNCHANGED <<pc, exit>>
  /\ UNCHANGED <<ep, open, smart_store_sessions, customer_data, infos,
                 api_calls, warnings, budget, nres, diar, tokens, raised,
                 fed>>

\* ------------------------------------------------------------------------
\* Messages handled by the same code on /asr-multicam and /asr-smart-store
\* ------------------------------------------------------------------------
\* The sequence check with its guard off by one.
SeqMismatch_GuardAtTwo(expected_seq, seq) ==
  seq # expected_seq /\ expected_seq > 2

\* Lines 346-349 and 692-695: the sequence check of audio_chunk_meta.
SeqMismatch(expected_seq, seq) == seq # expected_seq /\ expected_seq > 1

\* The chunk is accepted whenever a pipeline exists.
MetaAccepted_ProcessorOnly(l) == l.proc # 0

\* Lines 331 and 677: `if not stream_started:` rejects the chunk.
MetaAccepted(l) == l.started

\* audio_chunk_meta, lines 329-352 and 675-698, up to the await of the
\* binary frame.
ChunkMeta(c, seq) ==
  /\ ep[c] \in {"multicam", "smart"}
  /\ pc[c] = "recv" /\ open[c] /\ nmsgs < budget
  /\ nmsgs' = nmsgs + 1
  /\ IF ~MetaAccepted(loc[c])
     THEN /\ sent' = [sent EXCEPT ![c] = Append(@, ErrorMsg(StartFirst))]
          /\ UNCHANGED <<pc, loc, warnings, pipes>>
     ELSE /\ warnings' = IF SeqMismatch(loc[c].expected_seq, seq)
                         THEN [warnings EXCEPT ![c] = Append(@,
                                 [proc |-> loc[c].proc,
                                  at |-> Len(pipes[loc[c].proc].seqs) + 1,
                                  expected |-> loc[c].expected_seq,
                                  got |-> seq])]
                         ELSE warnings
          /\ loc' = [loc EXCEPT ![c].expected_seq = seq + 1]
          /\ pipes' = IF loc[c].proc # 0
                      THEN [pipes EXCEPT ![loc[c].proc].seqs = Append(@, seq)]
                      ELSE pipes
          /\ pc' = [pc EXCEPT ![c] = "recv_bytes"]
          /\ UNCHANGED sent
  /\ UNCHANGED <<ep, open, exit, tasks, active_sessions,
                 smart_store_sessions, customer_data, infos, api_calls,
                 budget, nres, nuuid, diar, tokens, raised, fed>>

\* The frame read after an audio_chunk_meta of stream p has arrived.
RecordArrival(ps, p, frame) ==
  IF p # 0 THEN [ps EXCEPT ![p].arrived = Append(@, frame)] ELSE ps

\* A frame of a chunk that caused a sequence warning is dropped.
ForwardChunk_DropsAfterWarning(ps, p, frame) ==
  IF /\ p # 0 /\ frame # 0
     /\ ~\E i \in 1..Len(warnings[ps[p].conn]) :
           /\ warnings[ps[p].conn][i].proc = p
           /\ warnings[ps[p].conn][i].at = Len(ps[p].seqs)
  THEN ProcessAudio(ps, p, frame)
  ELSE ps

\* Lines 352-353 and 699-700:
\* `if audio_processor and len(audio_data) > 0: await process_audio(...)`.
ForwardChunk(ps, p, frame) ==
  IF p # 0 /\ frame # 0 THEN ProcessAudio(ps, p, frame) ELSE ps

\* The binary frame after audio_chunk_meta, lines 351-355 and 698-701.
ChunkBytes(c, empty) ==
  /\ pc[c] = "recv_bytes" /\ open[c] /\ nmsgs < budget
  /\ nmsgs' = nmsgs + 1
  /\ LET frame == IF empty THEN 0 ELSE loc[c].frames + 1
     IN pipes' = RecordArrival(ForwardChunk(pipes, loc[c].proc, frame),
                               loc[c].proc, frame)
  /\ loc' = [loc EXCEPT ![c].frames = IF empty THEN @ ELSE @ + 1]
  /\ pc' = [pc EXCEPT ![c] = "recv"]
  /\ UNCHANGED <<ep, open, exit, tasks, active_sessions,
                 smart_store_sessions, customer_data, infos, sent,
                 api_calls, warnings, budget, nres, nuuid, diar, tokens,
                 raised, fed>>

\* The fallback frame is awaited whenever a pipeline exists.
FallbackAccepted_ProcessorOnly(l) == l.proc # 0

\* Lines 395 and 740: `if stream_started and audio_processor:`.
FallbackAccepted(l) == l.started /\ l.proc # 0

\* A text frame that is not JSON, lines 393-402 and 738-747.
NonJsonText(c) ==
  /\ ep[c] \in {"multicam", "smart"}
  /\ pc[c] = "recv" /\ open[c] /\ nmsgs < budget
  /\ nmsgs' = nmsgs + 1
  /\ IF FallbackAccepted(loc[c])
     THEN /\ pc' = [pc EXCEPT ![c] = "recv_bytes_fb"]
          /\ UNCHANGED sent
     ELSE /\ sent' = [sent EXCEPT ![c] = Append(@, ErrorMsg(InvalidFormat))]
          /\ UNCHANGED pc
  /\ UNCHANGED <<ep, open, loc, exit, pipes, tasks, active_sessions,
                 smart_store_sessions, customer_data, infos, api_calls,
                 warnings, budget, nres, nuuid, diar, tokens, raised, fed>>

\* The binary frame of the fallback path, lines 396-397 and 741-742: handed
\* to the pipeline whatever its length.
FallbackBytes(c, empty) ==
  /\ pc[c] = "recv_bytes_fb" /\ open[c] /\ nmsgs < budget
  /\ nmsgs' = nmsgs + 1
  /\ pipes' = ProcessAudio(pipes, loc[c].proc,
                           IF empty THEN 0 ELSE loc[c].frames + 1)
  /\ loc' = [loc EXCEPT ![c].frames = IF empty THEN @ ELSE @ + 1]
  /\ pc' = [pc EXCEPT ![c] = "recv"]
  /\ UNCHANGED <<ep, open, exit, tasks, active_sessions,
                 smart_store_sessions, customer_data, infos, sent,
                 api_calls, warnings, budget, nres, nuuid, diar, tokens,
                 raised, fed>>

\* A JSON object with an unknown type, lines 387-391 and 732-736.
UnknownType(c) ==
  /\ ep[c] \in {"multicam", "smart"}
  /\ pc[c] = "recv" /\ open[c] /\ nmsgs < budget
  /\ nmsgs' = nmsgs + 1
  /\ sent' = [sent EXCEPT ![c] = Append(@, ErrorMsg(UnknownMessageType))]
  /\ UNCHANGED <<ep, pc, open, loc, exit, pipes, tasks, active_sessions,
                 smart_store_sessions, customer_data, infos, api_calls,
                 warnings, budget, nres, nuuid, diar, tokens, raised, fed>>

\* A text frame whose JSON value is not an object (a list, a string, a
\* number): data.get("type") raises AttributeError at line 254 or 594,
\* caught at line 406 or 751.
NonObjectJson(c) ==
  /\ ep[c] \in {"multicam", "smart"}
  /\ pc[c] = "recv" /\ open[c] /\ nmsgs < budget
  /\ nmsgs' = nmsgs + 1
  /\ EnterFinally(c, loc[c], "AttributeError")
  /\ UNCHANGED <<ep, open, pipes, smart_store_sessions, customer_data,
                 infos, sent, api_calls, warnings, budget, nres, nuuid,
                 diar, tokens, raised, fed>>

\* A frame of the wrong kind for the pending receive (a binary frame at
\* receive_text, a text frame at receive_bytes) raises KeyError, caught by
\* the handler (lines 198-206, 406, 751).
WrongFrame(c) ==
  /\ pc[c] \in {"recv", "recv_bytes", "recv_bytes_fb"}
  /\ open[c] /\ nmsgs < budget
  /\ nmsgs' = nmsgs + 1
  /\ EnterFinally(c, loc[c], "KeyError")
  /\ UNCHANGED <<ep, open, pipes, smart_store_sessions, customer_data,
                 infos, sent, api_calls, warnings, budget, nres, nuuid,
                 diar, tokens, raised, fed>>

\* An audio_stream_start whose "data" is not a JSON object (null, a list, a
\* string): stream_data.get raises AttributeError at line 259 or 599 before
\* any local is assigned; caught at line 406 or 751.
StartBadData(c) ==
  /\ ep[c] \in {"multicam", "smart"}
  /\ pc[c] = "recv" /\ open[c] /\ nmsgs < budget
  /\ nmsgs' = nmsgs + 1
  /\ EnterFinally(c, loc[c], "AttributeError")
  /\ UNCHANGED <<ep, open, pipes, smart_store_sessions, customer_data,
                 infos, sent, api_calls, warnings, budget, nres, nuuid,
                 diar, tokens, raised, fed>>

\* `await audio_processor.process_audio(b"")`, lines 373-374 and 714-715.
StopFlush(c) ==
  /\ pc[c] = "stop_flush"
  /\ pipes' = [ProcessAudio(pipes, loc[c].proc, 0) EXCEPT
                ![loc[c].proc].stops = @ + 1]
  /\ pc' = [pc EXCEPT ![c] = "stop_send"]
  /\ UNCHANGED <<ep, open, loc, exit, tasks, active_sessions,
                 smart_store_sessions, customer_data, infos, sent,
                 api_calls, warnings, budget, nmsgs, nres, nuuid, diar,
                 tokens, raised, fed>>

StoppedMsg(l) ==
  [type |-> "audio_stream_stopped", session |-> l.session,
   customer |-> l.customer, stream |-> l.stream, pipe |-> 0, rid |-> 0,
   message |-> None]

\* ------------------------------------------------------------------------
\* /asr-multicam: audio_stream_stop
\* ------------------------------------------------------------------------
\* Lines 368-370: mark the handler's customer stopped.
MarkStopped(as, l) ==
  IF /\ l.session \in DOMAIN as
     /\ l.customer \in DOMAIN as[l.session].customers
  THEN [as EXCEPT ![l.session].customers[l.customer].status = "stopped"]
  ELSE as

\* Lines 357-373, up to the await of the flush.
McStop(c) ==
  /\ CanRecvText(c, "multicam")
  /\ nmsgs' = nmsgs + 1
  /\ LET l == loc[c]
     IN IF \/ ~Hashable(l.session)
           \/ l.session \in DOMAIN active_sessions /\ ~Hashable(l.customer)
        THEN \* TypeError at line 368, caught at line 406
             EnterFinally(c, l, "error")
        ELSE /\ active_sessions' = MarkStopped(active_sessions, l)
             /\ pc' = [pc EXCEPT ![c] = IF l.proc # 0 THEN "stop_flush"
                                        ELSE "stop_send"]
             /\ UNCHANGED <<loc, exit, tasks>>
  /\ UNCHANGED <<ep, open, pipes, smart_store_sessions, customer_data,
                 infos, sent, api_calls, warnings, budget, nres, nuuid,
                 diar, tokens, raised, fed>>

\* The audio_stream_stopped reply and `break`, lines 376-385; a send on a
\* closed connection raises and is caught at lines 404-407.
McStopSend(c) ==
  /\ ep[c] = "multicam"
  /\ pc[c] = "stop_send"
  /\ IF open[c]
     THEN /\ sent' = [sent EXCEPT ![c] = Append(@, StoppedMsg(loc[c]))]
          /\ EnterFinally(c, loc[c], "stop")
     ELSE /\ EnterFinally(c, loc[c], "error")
          /\ UNCHANGED sent
  /\ UNCHANGED <<ep, open, pipes, smart_store_sessions, customer_data,
                 infos, api_calls, warnings, budget, nmsgs, nres, nuuid,
                 diar, tokens, raised, fed>>

\* ------------------------------------------------------------------------
\* /asr-smart-store: control messages
\* ------------------------------------------------------------------------
\* The session record the endpoint stores, lines 639-643: it has the keys
\* customers, current_customer and session_start.
EndpointSession(customer_id) ==
  [shape |-> "endpoint", current_customer |-> customer_id,
   customers |-> EmptyDict, customer_history |-> <<>>]

\* Lines 629-630 and 638-643.
SsTouchSession(sss, session_id, customer_id) ==
  IF session_id \in DOMAIN sss
  THEN [sss EXCEPT ![session_id].current_customer = customer_id]
  ELSE DictSet(sss, session_id, EndpointSession(customer_id))

\* audio_stream_start, lines 596-673.
SsStart(c, m) ==
  /\ CanRecvText(c, "smart")
  /\ nmsgs' = nmsgs + 1
  /\ LET l1 == [loc[c] EXCEPT !.session = m.session, !.customer = m.customer,
                              !.stream = m.stream]
         p == Len(pipes) + 1
         t == Len(tasks) + 1
         l2 == [l1 EXCEPT !.proc = p]
         touched == SsTouchSession(smart_store_sessions, m.session, m.customer)
     IN IF ~Truthy(m.session) \/ ~Truthy(m.customer) \/ ~Truthy(m.stream)
        THEN \* error reply, continue
             /\ loc' = [loc EXCEPT ![c] = l1]
             /\ sent' = [sent EXCEPT ![c] = Append(@, ErrorMsg(RequiredField))]
             /\ UNCHANGED <<pc, exit, pipes, tasks, active_sessions,
                            smart_store_sessions>>
        ELSE IF ~Hashable(m.session)
        THEN \* TypeError at line 629, caught at line 751
             /\ EnterFinally(c, l1, "error")
             /\ UNCHANGED <<pipes, sent, smart_store_sessions>>
        ELSE IF ~Hashable(m.customer) \/ touched[m.session].shape # "endpoint"
        THEN \* TypeError or KeyError at line 645, after the new
             \* AudioProcessor replaced the old one at line 633
             /\ pipes' = Append(pipes, NewPipe(c))
             /\ smart_store_sessions' = touched
             /\ EnterFinally(c, l2, "error")
             /\ UNCHANGED sent
        ELSE /\ smart_store_sessions' =
                  [touched EXCEPT ![m.session].customers =
                     DictSet(@, m.customer, m.stream)]
             /\ pipes' = Append(pipes, NewPipe(c))
             /\ sent' = [sent EXCEPT ![c] =
                           Append(@, ReadyMsg(m.session, m.customer, m.stream))]
             /\ tasks' = Append(tasks,
                   HandleSmartStore(c, p, m.session, m.stream, m.customer, m))
             /\ loc' = [loc EXCEPT ![c] = [l2 EXCEPT !.task = t, !.started = TRUE,
                                                    !.expected_seq = 1]]
             /\ UNCHANGED <<pc, exit, active_sessions>>
  /\ UNCHANGED <<ep, open, customer_data, infos, api_calls, warnings,
                 budget, nres, nuuid, diar, tokens, raised, fed>>

\* audio_stream_stop, lines 703-715, up to the await of the flush.
SsStop(c) ==
  /\ CanRecvText(c, "smart")
  /\ nmsgs' = nmsgs + 1
  /\ pc' = [pc EXCEPT ![c] = IF loc[c].proc # 0 THEN "stop_flush" ELSE "stop_send"]
  /\ UNCHANGED <<ep, open, loc, exit, pipes, tasks, active_sessions,
                 smart_store_sessions, customer_data, infos, sent,
                 api_calls, warnings, budget, nres, nuuid, diar, tokens,
                 raised, fed>>

\* The expected sequence number is kept for the next customer.
AfterStop_KeepsSeq(l) == [l EXCEPT !.started = FALSE]

\* Lines 728-729: stream_started = False, expected_seq = 1.
AfterStop(l) == [l EXCEPT !.started = FALSE, !.expected_seq = 1]

\* The audio_stream_stopped reply, lines 717-730: the connection stays open
\* for the next customer.
SsStopSend(c) ==
  /\ ep[c] = "smart"
  /\ pc[c] = "stop_send"
  /\ IF open[c]
     THEN /\ sent' = [sent EXCEPT ![c] = Append(@, StoppedMsg(loc[c]))]
          /\ loc' = [loc EXCEPT ![c] = AfterStop(loc[c])]
          /\ pc' = [pc EXCEPT ![c] = "recv"]
          /\ UNCHANGED <<exit, active_sessions, tasks>>
     ELSE /\ EnterFinally(c, loc[c], "error")
          /\ UNCHANGED sent
  /\ UNCHANGED <<ep, open, pipes, smart_store_sessions, customer_data,
                 infos, api_calls, warnings, budget, nmsgs, nres, nuuid,
                 diar, tokens, raised, fed>>

\* ------------------------------------------------------------------------
\* /asr: every frame is audio, lines 195-197
\* ------------------------------------------------------------------------
AsrBytes(c, empty) ==
  /\ ep[c] = "asr"
  /\ pc[c] = "recv" /\ open[c] /\ nmsgs < budget
  /\ nmsgs' = nmsgs + 1
  /\ pipes' = ProcessAudio(pipes, loc[c].proc,
                           IF empty THEN 0 ELSE loc[c].frames + 1)
  /\ loc' = [loc EXCEPT ![c].frames = IF empty THEN @ ELSE @ + 1]
  /\ UNCHANGED <<ep, pc, open, exit, tasks, active_sessions,
                 smart_store_sessions, customer_data, infos, sent,
                 api_calls, warnings, budget, nres, nuuid, diar, tokens,
                 raised, fed>>

\* ------------------------------------------------------------------------
\* The tail of the finally blocks
\* ------------------------------------------------------------------------
\* `await websocket_task` with CancelledError and Exception swallowed,
\* lines 211-216, 430-436 and 759-765.
FinAwait(c) ==
  /\ pc[c] = "fin_await"
  /\ LET t == loc[c].task
     IN tasks' = IF tasks[t].cancel /\ ~TaskDone(t)
                 THEN [tasks EXCEPT ![t].state = "cancelled", ![t].pending = NoMsg]
                 ELSE tasks
  /\ pc' = [pc EXCEPT ![c] = IF loc[c].proc # 0 THEN "fin_cleanup" ELSE "done"]
  /\ UNCHANGED <<ep, open, loc, exit, pipes, active_sessions,
                 smart_store_sessions, customer_data, infos, sent,
                 api_calls, warnings, budget, nmsgs, nres, nuuid, diar,
                 tokens, raised, fed>>

\* `await audio_processor.cleanup()`, lines 218, 439-440 and 768-769.
FinCleanup(c) ==
  /\ pc[c] = "fin_cleanup"
  /\ pipes' = [pipes EXCEPT ![loc[c].proc].cleanups = @ + 1]
  /\ pc' = [pc EXCEPT ![c] = "done"]
  /\ UNCHANGED <<ep, open, loc, exit, tasks, active_sessions,
                 smart_store_sessions, customer_data, infos, sent,
                 api_calls, warnings, budget, nmsgs, nres, nuuid, diar,
                 tokens, raised, fed>>

\* ------------------------------------------------------------------------
\* The pipelines
\* ------------------------------------------------------------------------
\* A pipeline cycle makes a result available for the audio it was handed;
\* the result carries one finalized line.  Nothing is produced after the
\* empty frame.
PipelineProduce(p, text) ==
  /\ p \in 1..Len(pipes)
  /\ HasAudio(p)
  /\ ~Flushed(p)
  /\ pipes[p].cleanups = 0
  /\ nres < MaxResults
  /\ nres' = nres + 1
  /\ pipes' = [pipes EXCEPT ![p].results = Append(@, text)]
  /\ UNCHANGED <<ep, pc, open, loc, exit, tasks, active_sessions,
                 smart_store_sessions, customer_data, infos, sent,
                 api_calls, warnings, budget, nmsgs, nuuid, diar, tokens,
                 raised, fed>>

\* The results generator ends once the pipeline received the empty frame
\* and every result was yielded.
Drained(p) == Flushed(p) /\ pipes[p].yielded = Len(pipes[p].results)

\* ------------------------------------------------------------------------
\* The results-emission tasks
\* ------------------------------------------------------------------------
NewInfo == [detected_keywords |-> {}, transcript |-> <<>>]

\* The session record a results handler creates, lines 450-457: it has the
\* keys current_customer, customer_history, session_transcript, ...
HandlerSession(customer_id) ==
  [shape |-> "handler", current_customer |-> customer_id,
   customers |-> EmptyDict, customer_history |-> <<>>]

\* next((h for h in customer_history
\*       if h["customer_id"] == customer_id and h["status"] == "active"), None)
ActiveHistory(history, customer_id) ==
  LET hits == {i \in 1..Len(history) : /\ history[i].customer_id = customer_id
                                       /\ history[i].status = "active"}
  IN IF hits = {} THEN 0 ELSE CHOOSE i \in hits : \A j \in hits : i <= j

\* The code of a handler before its try block, run when the task is first
\* scheduled: lines 104-112 (multicam) and 448-480 (smart store).
TaskStart(t) ==
  /\ t \in 1..Len(tasks)
  /\ tasks[t].state = "new"
  /\ ~tasks[t].cancel
  /\ LET k == tasks[t].customer
         s == tasks[t].session
         fresh == k \notin DOMAIN customer_data
         i == IF fresh THEN Len(infos) + 1 ELSE customer_data[k]
         sd0 == IF s \in DOMAIN smart_store_sessions
                THEN smart_store_sessions
                ELSE DictSet(smart_store_sessions, s, HandlerSession(k))
         h1 == IF fresh
               THEN Append(sd0[s].customer_history,
                      [customer_id |-> k, status |-> "active",
                       detected_keywords |-> {}])
               ELSE sd0[s].customer_history
     IN /\ customer_data' = IF fresh THEN DictSet(customer_data, k, i)
                            ELSE customer_data
        /\ infos' = IF fresh THEN Append(infos, NewInfo) ELSE infos
        /\ IF tasks[t].kind = "multicam"
           THEN /\ tasks' = [tasks EXCEPT ![t].state = "waiting", ![t].info = i]
                /\ UNCHANGED smart_store_sessions
           ELSE IF sd0[s].shape # "handler"
           THEN \* KeyError: 'customer_history' at line 470 or 479
                /\ tasks' = [tasks EXCEPT ![t].state = "failed"]
                /\ smart_store_sessions' = sd0
           ELSE /\ smart_store_sessions' = [sd0 EXCEPT ![s].customer_history = h1]
                /\ tasks' = [tasks EXCEPT ![t].state = "waiting", ![t].info = i,
                                          ![t].hist = ActiveHistory(h1, k)]
  /\ UNCHANGED <<ep, pc, open, loc, exit, pipes, active_sessions, sent,
                 api_calls, warnings, budget, nmsgs, nres, nuuid, diar,
                 tokens, raised, fed>>

\* Lines 128-137 and 499-512: the keyword a line triggers, None for none.
DetectKeyword(text, detected_keywords) ==
  IF HasHello(text) /\ "SAY_HELLO" \notin detected_keywords THEN "SAY_HELLO"
  ELSE IF HasSorry(text) /\ "SAY_SORRY" \notin detected_keywords THEN "SAY_SORRY"
  ELSE None

\* The message a handler sends for result rid of its pipeline: lines 69,
\* 144-150, 519-525.
Enhanced(task, rid) ==
  IF task.kind = "asr"
  THEN [NoMsg EXCEPT !.type = "result", !.pipe = task.pipe, !.rid = rid]
  ELSE [type |-> "result", session |-> task.session,
        customer |-> task.customer, stream |-> task.stream,
        pipe |-> task.pipe, rid |-> rid, message |-> None]

\* asyncio.create_task(call_experience_event_api(customer_id, event)) by
\* task t: a detached task whose request is waiting for the collaborator.
ApiCall(t, event) ==
  [customer |-> tasks[t].customer, event |-> event, task |-> t,
   status |-> "pending"]

\* What a notification task ends with, lines 89-98: status 200, any other
\* status (logged as a warning), or an exception of the request (caught
\* and logged).
ApiOutcomes == {"success", "http_error", "failed"}

\* The collaborator answers notification k of connection c, or the request
\* fails: the notification task logs the outcome and ends.  It may also
\* never happen.
ApiAnswer(c, k, outcome) ==
  /\ k \in 1..Len(api_calls[c])
  /\ api_calls[c][k].status = "pending"
  /\ api_calls' = [api_calls EXCEPT ![c][k].status = outcome]
  /\ UNCHANGED <<ep, pc, open, loc, exit, pipes, tasks, active_sessions,
                 smart_store_sessions, customer_data, infos, sent,
                 warnings, budget, nmsgs, nres, nuuid, diar, tokens,
                 raised, fed>>

\* The notifications of task t that the collaborator has not answered.
PendingCalls(t) ==
  {k \in 1..Len(api_calls[tasks[t].conn]) :
     /\ api_calls[tasks[t].conn][k].task = t
     /\ api_calls[tasks[t].conn][k].status = "pending"}

\* One iteration of `async for response in results_generator` up to the
\* await of send_json: lines 68-69, 115-151 and 483-526.
TaskYield(t) ==
  /\ t \in 1..Len(tasks)
  /\ tasks[t].state = "waiting"
  /\ ~tasks[t].cancel
  /\ pipes[tasks[t].pipe].yielded < Len(pipes[tasks[t].pipe].results)
  /\ LET p == tasks[t].pipe
         rid == pipes[p].yielded + 1
         text == pipes[p].results[rid]
         c == tasks[t].conn
         i == tasks[t].info
         code == DetectKeyword(text, infos[i].detected_keywords)
     IN /\ pipes' = [pipes EXCEPT ![p].yielded = rid]
        /\ tasks' = [tasks EXCEPT ![t].state = "sending",
                                  ![t].pending = Enhanced(tasks[t], rid)]
        /\ IF tasks[t].kind = "asr"
           THEN UNCHANGED <<infos, api_calls, smart_store_sessions>>
           ELSE /\ infos' = [infos EXCEPT
                      ![i].transcript = Append(@, text),
                      ![i].detected_keywords =
                         IF code = None THEN @ ELSE @ \cup {code}]
                /\ api_calls' = IF code = None THEN api_calls
                                ELSE [api_calls EXCEPT ![c] =
                                        Append(@, ApiCall(t, code))]
                /\ smart_store_sessions' =
                     IF tasks[t].kind = "smart" /\ tasks[t].hist # 0 /\ code # None
                     THEN [smart_store_sessions EXCEPT
                             ![tasks[t].session].customer_history[tasks[t].hist]
                                .detected_keywords = @ \cup {code}]
                     ELSE smart_store_sessions
  /\ UNCHANGED <<ep, pc, open, loc, exit, active_sessions, customer_data,
                 sent, warnings, budget, nmsgs, nres, nuuid, diar, tokens,
                 raised, fed>>

\* The websocket accepts a send while the client is connected and the
\* connection handler has not returned.
CanSend(c) == open[c] /\ pc[c] \notin {"done", "crashed"}

\* A handler reaches `await websocket.send_json(enhanced_response)` right
\* after the keyword check: the notification was handed to create_task
\* and is not awaited (lines 131-151, 501-526).
ReadyToSend_AwaitsNotification(t) ==
  tasks[t].state = "sending" /\ ~tasks[t].cancel /\ PendingCalls(t) = {}

ReadyToSend(t) == tasks[t].state = "sending" /\ ~tasks[t].cancel

\* `await websocket.send_json(...)` of a handler completes or raises; the
\* handlers catch WebSocketDisconnect and Exception and return
\* (lines 73-76, 176-179, 556-559).
TaskSend(t) ==
  /\ t \in 1..Len(tasks)
  /\ ReadyToSend(t)
  /\ IF CanSend(tasks[t].conn)
     THEN /\ sent' = [sent EXCEPT ![tasks[t].conn] = Append(@, tasks[t].pending)]
          /\ tasks' = [tasks EXCEPT
                ![t].state = IF tasks[t].pending.type = "ready_to_stop"
                             THEN "done" ELSE "waiting",
                ![t].pending = NoMsg]
     ELSE /\ tasks' = [tasks EXCEPT ![t].state = "done", ![t].pending = NoMsg]
          /\ UNCHANGED sent
  /\ UNCHANGED <<ep, pc, open, loc, exit, pipes, active_sessions,
                 smart_store_sessions, customer_data, infos, api_calls,
                 warnings, budget, nmsgs, nres, nuuid, diar, tokens,
                 raised, fed>>

\* The results generator has finished: the handler runs its epilogue up to
\* the await of the ready_to_stop send, lines 70-72, 153-175 and 528-555.
TaskDrain(t) ==
  /\ t \in 1..Len(tasks)
  /\ tasks[t].state = "waiting"
  /\ ~tasks[t].cancel
  /\ Drained(tasks[t].pipe)
  /\ tasks' = [tasks EXCEPT ![t].state = "sending",
                 ![t].pending = [Enhanced(tasks[t], 0) EXCEPT !.type = "ready_to_stop"]]
  /\ IF tasks[t].kind = "asr"
     THEN UNCHANGED <<api_calls, customer_data, smart_store_sessions>>
     ELSE /\ api_calls' = [api_calls EXCEPT ![tasks[t].conn] =
                             Append(@, ApiCall(t, "SESSION_END"))]
          /\ customer_data' = DictDel(customer_data, tasks[t].customer)
          /\ smart_store_sessions' =
               IF tasks[t].kind = "smart" /\ tasks[t].hist # 0
               THEN [smart_store_sessions EXCEPT
                       ![tasks[t].session].customer_history[tasks[t].hist]
                          .status = "completed"]
               ELSE smart_store_sessions
  /\ UNCHANGED <<ep, pc, open, loc, exit, pipes, active_sessions, infos,
                 sent, warnings, budget, nmsgs, nres, nuuid, diar, tokens,
                 raised, fed>>


\* ------------------------------------------------------------------------
\* The diarization backend (SortformerDiarization)
\* ------------------------------------------------------------------------
\* Time is counted in ticks of half a frame, audio in half windows.
\* chunk_size = sample_rate: one window of audio, line 96.
ChunkSize == 2

\* The lengths of the pcm arrays handed to diarize.
PcmLens == {1, 2, 3}

\* frame_duration_s, line 117.
FrameTicks == 2

\* chunk_len, lines 31 and 116: the frames one sub-window of the streaming
\* loader stands for; chunk_duration_seconds, line 118.
ChunkLen == 2
ChunkTicks == ChunkLen * FrameTicks

\* num_new_frames, line 134, of a window the loader yields as one
\* sub-window of chunk_len frames.
FramesPerWindow == ChunkLen

\* processed_signal_length of such a window as a time, lines 108 and
\* 153-154: the time its frames cover.
WindowTicks == FramesPerWindow * FrameTicks

\* np.argmax(preds_np, axis=1), line 138: the index of the active speaker.
SpeakerIdx == {0, 1}

\* What forward_streaming_step leaves in total_preds for a sub-window: the
\* per-frame speakers, or None (NoPreds), the case line 133 tests for.
NoPreds == <<>>
WindowPreds == {NoPreds} \cup [1..FramesPerWindow -> SpeakerIdx]

\* What the collaborators return for one window: the predictions of each
\* sub-window the streaming loader yields (line 120) and the
\* processed_signal_length of feature extraction (line 102).
WindowOut(chunks, length) == [chunks |-> chunks, length |-> length]

\* A window of one sub-window whose processed length is the time of
\* chunk_len frames.
Regular(preds) == WindowOut(<<preds>>, WindowTicks)

\* A window that feature extraction or the streaming loader returns None
\* for, lines 103-104 and 111-112.
Skipped == WindowOut(<<>>, 0)

\* __init__, lines 15-59.  When from_pretrained raises, the constructor
\* returns at line 22: diar_model is None and none of the attributes of
\* lines 40-59 (audio_buffer, speaker_segments, ...) is ever assigned.
\* frontend: the loaded model has a preprocessor and sortformer_modules
\* (lines 30, 48, 68 and 75).  samples counts the samples diarize was
\* handed, taken holds the windows removed from the buffer, advances
\* counts the executions of line 154 and offsets holds the
\* current_offset_seconds of every window that reached line 108.
Constructed(loaded, frontend) ==
  [diar_model |-> loaded, attrs |-> loaded, frontend |-> loaded /\ frontend,
   audio_buffer |-> <<>>, processed_signal_offset |-> 0,
   speaker_segments |-> <<>>, windows |-> 0, steps |-> 0, calls |-> 0,
   samples |-> 0, taken |-> <<>>, advances |-> 0, offsets |-> <<>>]

\* Every frame starts its own segment.
StoreFrame_AlwaysAppends(segs, spk, start_time, end_time) ==
  Append(segs, [speaker |-> spk + 1, start |-> start_time, end |-> end_time])

\* Lines 144-151: extend the last segment when its speaker is this
\* frame's, append a new segment otherwise.
StoreFrame(segs, spk, start_time, end_time) ==
  IF segs # <<>> /\ segs[Len(segs)].speaker = spk + 1
  THEN [segs EXCEPT ![Len(segs)].end = end_time]
  ELSE Append(segs, [speaker |-> spk + 1, start |-> start_time, end |-> end_time])

\* Lines 140-142: the times of frame idx (counted from 1 here) of a
\* sub-window that starts at current_offset.
FrameStart(current_offset, idx) == current_offset + (idx - 1) * FrameTicks
FrameEnd(current_offset, idx) == FrameStart(current_offset, idx) + FrameTicks

\* `for idx, spk in enumerate(active_speakers)`, lines 140-151, from frame
\* idx on.
RECURSIVE StoreFrames(_, _, _, _)
StoreFrames(segs, preds, current_offset, idx) ==
  IF idx > Len(preds) THEN segs
  ELSE StoreFrames(StoreFrame(segs, preds[idx], FrameStart(current_offset, idx),
                              FrameEnd(current_offset, idx)),
                   preds, current_offset, idx + 1)

\* The frames of a sub-window as they are stored, for the record of what
\* was fed.
FramesOf(preds, current_offset) ==
  [idx \in 1..Len(preds) |->
     [speaker |-> preds[idx] + 1, start |-> FrameStart(current_offset, idx),
      end |-> FrameEnd(current_offset, idx)]]

\* Line 141: the time sub-window i (counted from 1 here) starts at,
\* current_offset_seconds + i * chunk_duration_seconds.
ChunkStart(current_offset, i) == current_offset + (i - 1) * ChunkTicks

\* `for i, ... in streaming_loader`, lines 120-151, from sub-window i on.
RECURSIVE StoreChunks(_, _, _, _)
StoreChunks(segs, chunks, current_offset, i) ==
  IF i > Len(chunks) THEN segs
  ELSE StoreChunks(StoreFrames(segs, chunks[i], ChunkStart(current_offset, i), 1),
                   chunks, current_offset, i + 1)

RECURSIVE FramesOfChunks(_, _, _)
FramesOfChunks(chunks, current_offset, i) ==
  IF i > Len(chunks) THEN <<>>
  ELSE FramesOf(chunks[i], ChunkStart(current_offset, i))
         \o FramesOfChunks(chunks, current_offset, i + 1)

\* Line 99 takes the samples at the end of the buffer.
TakeWindow_FromEnd(buffer) ==
  SubSeq(buffer, Len(buffer) - ChunkSize + 1, Len(buffer))

\* chunk_to_process = self.audio_buffer[:chunk_size], line 99.
TakeWindow(buffer) == SubSeq(buffer, 1, ChunkSize)

\* One iteration of the while loop, lines 98-154, for a window the
\* collaborators return out for.
ProcessWindow(d, out) ==
  [d EXCEPT !.audio_buffer = SubSeq(@, ChunkSize + 1, Len(@)),
            !.taken = Append(@, TakeWindow(d.audio_buffer)),
            !.speaker_segments =
               StoreChunks(@, out.chunks, d.processed_signal_offset, 1),
            !.offsets = IF out = Skipped THEN @
                        ELSE Append(@, d.processed_signal_offset),
            !.processed_signal_offset = @ + out.length,
            !.advances = IF out = Skipped THEN @ ELSE @ + 1,
            !.windows = @ + 1,
            !.steps = IF out = Skipped THEN @ ELSE @ + 1]

\* The while loop over the windows the buffer holds, lines 98-154.
RECURSIVE ProcessWindows(_, _, _)
ProcessWindows(d, wp, w) ==
  IF w > Len(wp) THEN d
  ELSE ProcessWindows(ProcessWindow(d, wp[w]), wp, w + 1)

RECURSIVE FedBy(_, _, _)
FedBy(offset, wp, w) ==
  IF w > Len(wp) THEN <<>>
  ELSE FramesOfChunks(wp[w].chunks, offset, 1)
         \o FedBy(offset + wp[w].length, wp, w + 1)

\* The samples of a pcm array of n half windows, numbered in arrival
\* order after the `samples` handed over before.
Arrivals(samples, n) == [k \in 1..n |-> samples + k]

\* `while len(self.audio_buffer) >= chunk_size`, line 98: the iterations
\* of the loop for a buffer.
WindowsIn(buffer) == Len(buffer) \div ChunkSize

\* diarize(pcm_array) with a pcm array of n half windows, lines 85-154; wp
\* holds what the collaborators return for each window the call removes.
\* The body has no await: a call runs to its end before any other task.
Diarize(n, wp) ==
  /\ diar.calls < MaxCalls
  /\ raised' = None
  /\ IF ~diar.diar_model
     THEN \* lines 89-91
          /\ wp = <<>>
          /\ diar' = [diar EXCEPT !.calls = @ + 1]
          /\ UNCHANGED fed
     ELSE LET buffered == diar.audio_buffer \o Arrivals(diar.samples, n)
          IN /\ Len(wp) = WindowsIn(buffered)
             /\ \A w \in 1..Len(wp) : (wp[w] = Skipped) <=> ~diar.frontend
             /\ diar.windows + Len(wp) <= MaxWindows
             /\ diar' = ProcessWindows(
                          [diar EXCEPT !.audio_buffer = buffered,
                                       !.samples = @ + n,
                                       !.calls = @ + 1], wp, 1)
             /\ fed' = fed \o FedBy(diar.processed_signal_offset, wp, 1)
  /\ UNCHANGED <<ep, pc, open, loc, exit, pipes, tasks, active_sessions,
                 smart_store_sessions, customer_data, infos, sent,
                 api_calls, warnings, budget, nmsgs, nres, nuuid, tokens>>

\* A segment that only touches the token counts as well.
SegmentHits_Touching(segment, token) ==
  ~(segment.end < token.start \/ segment.start > token.end)

\* The test of line 163.
SegmentHits(segment, token) ==
  ~(segment.end <= token.start \/ segment.start >= token.end)

\* The inner loop stops at the first overlapping segment.
RECURSIVE ScanSegments_FirstWins(_, _, _)
ScanSegments_FirstWins(token, segs, j) ==
  IF j > Len(segs) THEN token
  ELSE IF ~(segs[j].end <= token.start \/ segs[j].start >= token.end)
       THEN [token EXCEPT !.speaker = segs[j].speaker]
       ELSE ScanSegments_FirstWins(token, segs, j + 1)

\* `for segment in self.speaker_segments`, lines 162-164, from segment j
\* on: every overlapping segment overwrites token.speaker.
RECURSIVE ScanSegments(_, _, _)
ScanSegments(token, segs, j) ==
  IF j > Len(segs) THEN token
  ELSE ScanSegments(
         IF SegmentHits(segs[j], token)
         THEN [token EXCEPT !.speaker = segs[j].speaker]
         ELSE token,
         segs, j + 1)

\* A token no speaker was assigned to.
NoSpeaker == -1

\* The tokens handed to assign_speakers_to_tokens: each is long enough to
\* overlap three frames and starts on or between frame boundaries, inside
\* or after the audio fed so far; a list holds them in order of time.
TokenLen == 2 * FrameTicks + 1
MaxTime == MaxWindows * WindowTicks
TokenSet ==
  {[start |-> s, end |-> s + TokenLen, speaker |-> NoSpeaker] :
     s \in 0..(MaxTime - 1)}
TokenLists ==
  {toks \in UNION {[1..n -> TokenSet] : n \in 0..MaxTokens} :
     \A i \in 1..Len(toks), j \in 1..Len(toks) :
       i < j => toks[i].start < toks[j].start}

\* assign_speakers_to_tokens(tokens), lines 157-165.  Reading
\* self.speaker_segments for the first token raises AttributeError when the
\* constructor returned at line 22.
AssignSpeakers(toks) ==
  /\ diar.calls < MaxCalls
  /\ diar' = [diar EXCEPT !.calls = @ + 1]
  /\ IF toks # <<>> /\ ~diar.attrs
     THEN /\ raised' = "AttributeError"
          /\ tokens' = [given |-> toks, returned |-> <<>>]
     ELSE /\ raised' = None
          /\ tokens' = [given |-> toks,
                        returned |-> [i \in 1..Len(toks) |->
                           ScanSegments(toks[i], diar.speaker_segments, 1)]]
  /\ UNCHANGED <<ep, pc, open, loc, exit, pipes, tasks, active_sessions,
                 smart_store_sessions, customer_data, infos, sent,
                 api_calls, warnings, budget, nmsgs, nres, nuuid, fed>>
\* ------------------------------------------------------------------------
\* Specification: one connection on any endpoint, every kind of message
\* ------------------------------------------------------------------------
Next ==
  \/ \E e \in Endpoints : Accept(1, e)
  \/ ClientDisconnect(1)
  \/ RecvDisconnect(1)
  \/ \E m \in StartMsgs : McStart(1, m)
  \/ \E m \in StartMsgs : SsStart(1, m)
  \/ \E seq \in Seqs : ChunkMeta(1, seq)
  \/ \E empty \in BOOLEAN : ChunkBytes(1, empty)
  \/ NonJsonText(1)
  \/ \E empty \in BOOLEAN : FallbackBytes(1, empty)
  \/ UnknownType(1)
  \/ StartBadData(1)
  \/ NonObjectJson(1)
  \/ WrongFrame(1)
  \/ McStop(1)
  \/ SsStop(1)
  \/ StopFlush(1)
  \/ McStopSend(1)
  \/ SsStopSend(1)
  \/ \E empty \in BOOLEAN : AsrBytes(1, empty)
  \/ FinAwait(1)
  \/ FinCleanup(1)
  \/ \E p \in 1..Len(pipes), text \in Texts : PipelineProduce(p, text)
  \/ \E t \in 1..Len(tasks) : TaskStart(t)
  \/ \E t \in 1..Len(tasks) : TaskYield(t)
  \/ \E t \in 1..Len(tasks) : TaskSend(t)
  \/ \E t \in 1..Len(tasks) : TaskDrain(t)

Spec == Init /\ [][Next]_vars

\* ------------------------------------------------------------------------
\* Specification: two concurrent connections on /asr-multicam that start
\* and stop streams of one session; no audio is sent
\* ------------------------------------------------------------------------
InitPair == InitWith(MaxPairMsgs)

NextPair ==
  \/ \E c \in Conns : Accept(c, "multicam")
  \/ \E c \in Conns : ClientDisconnect(c)
  \/ \E c \in Conns : RecvDisconnect(c)
  \/ \E c \in Conns, m \in PairStartMsgs : McStart(c, m)
  \/ \E c \in Conns : McStop(c)
  \/ \E c \in Conns : StopFlush(c)
  \/ \E c \in Conns : McStopSend(c)
  \/ \E c \in Conns : FinAwait(c)
  \/ \E c \in Conns : FinCleanup(c)
  \/ \E t \in 1..Len(tasks) : TaskStart(t)
  \/ \E t \in 1..Len(tasks) : TaskSend(t)
  \/ \E t \in 1..Len(tasks) : TaskDrain(t)

SpecPair == InitPair /\ [][NextPair]_vars

\* ------------------------------------------------------------------------
\* Specification: one connection that starts streams and sends chunks
\* ------------------------------------------------------------------------
InitChunks == InitWith(MaxChunkMsgs)

NextChunks ==
  \/ \E e \in {"multicam", "smart"} : Accept(1, e)
  \/ \E m \in ChunkStartMsgs : McStart(1, m)
  \/ \E m \in ChunkStartMsgs : SsStart(1, m)
  \/ \E seq \in Seqs : ChunkMeta(1, seq)
  \/ \E empty \in BOOLEAN : ChunkBytes(1, empty)
  \/ ClientDisconnect(1)
  \/ RecvDisconnect(1)
  \/ FinAwait(1)
  \/ FinCleanup(1)
  \/ \E t \in 1..Len(tasks) : TaskStart(t)

SpecChunks == InitChunks /\ [][NextChunks]_vars


\* ------------------------------------------------------------------------
\* Specification: the chunks of the streams of one connection that stays
\* open, long enough for three chunks of one stream
\* ------------------------------------------------------------------------
InitSeq == InitWith(MaxSeqMsgs)

NextSeq ==
  \/ \E e \in {"multicam", "smart"} : Accept(1, e)
  \/ \E m \in ChunkStartMsgs : McStart(1, m)
  \/ \E m \in ChunkStartMsgs : SsStart(1, m)
  \/ \E seq \in Seqs : ChunkMeta(1, seq)
  \/ \E empty \in BOOLEAN : ChunkBytes(1, empty)

SpecSeq == InitSeq /\ [][NextSeq]_vars

\* ------------------------------------------------------------------------
\* Specification: the message loop of one connection on /asr-multicam or
\* /asr-smart-store under every kind of client frame, up to its cleanup;
\* the results tasks do not run
\* ------------------------------------------------------------------------
InitCtl == InitWith(MaxCtlMsgs)

NextCtl ==
  \/ \E e \in {"multicam", "smart"} : Accept(1, e)
  \/ \E m \in StartMsgs : McStart(1, m)
  \/ \E m \in StartMsgs : SsStart(1, m)
  \/ \E seq \in Seqs : ChunkMeta(1, seq)
  \/ \E empty \in BOOLEAN : ChunkBytes(1, empty)
  \/ NonJsonText(1)
  \/ \E empty \in BOOLEAN : FallbackBytes(1, empty)
  \/ UnknownType(1)
  \/ NonObjectJson(1)
  \/ StartBadData(1)
  \/ WrongFrame(1)
  \/ McStop(1)
  \/ SsStop(1)
  \/ StopFlush(1)
  \/ McStopSend(1)
  \/ SsStopSend(1)
  \/ FinAwait(1)
  \/ FinCleanup(1)

SpecCtl == InitCtl /\ [][NextCtl]_vars

\* ------------------------------------------------------------------------
\* Specification: two connections on /asr-multicam that stream audio for
\* the same customer one after the other (the second connects when the
\* handler of the first has returned), with results that contain a trigger
\* phrase
\* ------------------------------------------------------------------------
InitNotify == InitWith(MaxNotifyMsgs)

NotifyStart == [session |-> "s1", customer |-> "c1", stream |-> "t1"]

NextNotify ==
  \/ Accept(1, "multicam")
  \/ pc[1] = "done" /\ Accept(2, "multicam")
  \/ \E c \in Conns : McStart(c, NotifyStart)
  \/ \E c \in Conns : ChunkMeta(c, 1)
  \/ \E c \in Conns : ChunkBytes(c, FALSE)
  \/ \E c \in Conns : McStop(c)
  \/ \E c \in Conns : StopFlush(c)
  \/ \E c \in Conns : McStopSend(c)
  \/ \E c \in Conns : FinAwait(c)
  \/ \E c \in Conns : FinCleanup(c)
  \/ \E p \in 1..Len(pipes) : PipelineProduce(p, "hello")
  \/ \E t \in 1..Len(tasks) : TaskStart(t)
  \/ \E t \in 1..Len(tasks) : TaskYield(t)
  \/ \E t \in 1..Len(tasks) : TaskSend(t)
  \/ \E t \in 1..Len(tasks) : TaskDrain(t)

SpecNotify == InitNotify /\ [][NextNotify]_vars

\* ------------------------------------------------------------------------
\* Specification: one connection on /asr-multicam or /asr-smart-store whose
\* results contain trigger phrases, with a notification collaborator that
\* answers, fails or stays silent.  The event loop runs a results task
\* that can take a step; nothing is assumed of the client, the pipeline or
\* the collaborator.
\* ------------------------------------------------------------------------
InitEmit == InitWith(MaxEmitMsgs)

EmitTexts == {"hello", "other"}

EmitTasks == 1..MaxEmitMsgs

NextEmit ==
  \/ \E e \in {"multicam", "smart"} : Accept(1, e)
  \/ ClientDisconnect(1)
  \/ RecvDisconnect(1)
  \/ McStart(1, NotifyStart)
  \/ SsStart(1, NotifyStart)
  \/ ChunkMeta(1, 1)
  \/ ChunkBytes(1, FALSE)
  \/ McStop(1)
  \/ SsStop(1)
  \/ StopFlush(1)
  \/ McStopSend(1)
  \/ SsStopSend(1)
  \/ FinAwait(1)
  \/ FinCleanup(1)
  \/ \E p \in 1..Len(pipes), text \in EmitTexts : PipelineProduce(p, text)
  \/ \E t \in 1..Len(tasks) : TaskStart(t)
  \/ \E t \in 1..Len(tasks) : TaskYield(t)
  \/ \E t \in 1..Len(tasks) : TaskSend(t)
  \/ \E t \in 1..Len(tasks) : TaskDrain(t)
  \/ \E k \in 1..Len(api_calls[1]), outcome \in ApiOutcomes :
       ApiAnswer(1, k, outcome)

SpecEmit ==
  /\ InitEmit
  /\ [][NextEmit]_vars
  /\ \A t \in EmitTasks : WF_vars(TaskYield(t)) /\ WF_vars(TaskSend(t))

\* ------------------------------------------------------------------------
\* Specification: two concurrent connections on /asr-multicam that stream
\* for the same customer id in two different sessions, with results, until
\* a client disconnects
\* ------------------------------------------------------------------------
InitIso == InitWith(MaxIsoMsgs)

IsoStart(c) ==
  IF c = 1 THEN [session |-> "s1", customer |-> "c1", stream |-> "t1"]
           ELSE [session |-> "s2", customer |-> "c1", stream |-> "t2"]

NextIso ==
  \/ \E c \in Conns : Accept(c, "multicam")
  \/ \E c \in Conns : ClientDisconnect(c)
  \/ \E c \in Conns : RecvDisconnect(c)
  \/ \E c \in Conns : McStart(c, IsoStart(c))
  \/ \E c \in Conns : ChunkMeta(c, 1)
  \/ \E c \in Conns : ChunkBytes(c, FALSE)
  \/ \E c \in Conns : FinAwait(c)
  \/ \E c \in Conns : FinCleanup(c)
  \/ \E p \in 1..Len(pipes) : PipelineProduce(p, "hello")
  \/ \E t \in 1..Len(tasks) : TaskStart(t)
  \/ \E t \in 1..Len(tasks) : TaskYield(t)
  \/ \E t \in 1..Len(tasks) : TaskSend(t)

SpecIso == InitIso /\ [][NextIso]_vars

\* ------------------------------------------------------------------------
\* Specification: two concurrent connections on /asr-multicam that register
\* customers of two sessions again and again, with changing stream ids,
\* and stop or disconnect; no audio is sent and the results tasks do not
\* run
\* ------------------------------------------------------------------------
InitUpsert == InitWith(MaxUpsertMsgs)

UpsertStartMsgs ==
  { [session |-> "s1", customer |-> "c1", stream |-> "t1"],
    [session |-> "s1", customer |-> "c1", stream |-> "t2"],
    [session |-> "s1", customer |-> "c2", stream |-> "t2"],
    [session |-> "s2", customer |-> "c1", stream |-> "t1"] }

NextUpsert ==
  \/ \E c \in Conns : Accept(c, "multicam")
  \/ \E c \in Conns : ClientDisconnect(c)
  \/ \E c \in Conns : RecvDisconnect(c)
  \/ \E c \in Conns, m \in UpsertStartMsgs : McStart(c, m)
  \/ \E c \in Conns : McStop(c)
  \/ \E c \in Conns : StopFlush(c)
  \/ \E c \in Conns : McStopSend(c)
  \/ \E c \in Conns : FinAwait(c)
  \/ \E c \in Conns : FinCleanup(c)

SpecUpsert == InitUpsert /\ [][NextUpsert]_vars

\* ------------------------------------------------------------------------
\* Specification: a diarization backend whose model loaded or failed to
\* load is fed pcm arrays of every length, with every per-frame prediction
\* for the windows it processes
\* ------------------------------------------------------------------------
InitDiar ==
  /\ ServerInit(0)
  /\ \E loaded \in BOOLEAN, frontend \in BOOLEAN :
        diar = Constructed(loaded, frontend)
  /\ tokens = [given |-> <<>>, returned |-> <<>>]
  /\ raised = None
  /\ fed = <<>>

\* What the inference leaves for the windows of one call.
RegularOuts == {Regular(preds) : preds \in WindowPreds} \cup {Skipped}
WindowSeqs == UNION {[1..k -> RegularOuts] : k \in 0..MaxWindows}

NextFeed == \E n \in PcmLens, wp \in WindowSeqs : Diarize(n, wp)

SpecFeed == InitDiar /\ [][NextFeed]_vars

\* ------------------------------------------------------------------------
\* Specification: the same backend is fed windows that predict their
\* frames and then assigns speakers to a token list
\* ------------------------------------------------------------------------
SpokenOuts ==
  {Regular(preds) : preds \in [1..FramesPerWindow -> SpeakerIdx]} \cup {Skipped}
SpokenSeqs == UNION {[1..k -> SpokenOuts] : k \in 0..MaxWindows}

NextAssign ==
  \/ /\ tokens.given = <<>> /\ raised = None
     /\ \E n \in PcmLens, wp \in SpokenSeqs : Diarize(n, wp)
  \/ tokens.given = <<>> /\ \E toks \in TokenLists : AssignSpeakers(toks)

SpecAssign == InitDiar /\ [][NextAssign]_vars

\* ------------------------------------------------------------------------
\* Specification: a backend with a complete model is fed one window at a
\* time; the streaming loader yields one sub-window for a window, with
\* fewer frames than chunk_len, as many, or more, or that sub-window and a
\* second one of a single frame, and feature
\* extraction returns a processed length shorter than the time of
\* chunk_len frames, equal to it, or longer
\* ------------------------------------------------------------------------
InitStream ==
  /\ ServerInit(0)
  /\ diar = Constructed(TRUE, TRUE)
  /\ tokens = [given |-> <<>>, returned |-> <<>>]
  /\ raised = None
  /\ fed = <<>>

StreamPreds == UNION {[1..k -> SpeakerIdx] : k \in 1..(ChunkLen + 1)}
StreamTails == [1..1 -> SpeakerIdx]
StreamChunks == {<<preds>> : preds \in StreamPreds} \cup
                {<<preds, tail>> : preds \in StreamPreds, tail \in StreamTails}
StreamLengths == {WindowTicks - FrameTicks, WindowTicks, WindowTicks + FrameTicks}
StreamOuts == {WindowOut(chunks, length) :
                 chunks \in StreamChunks, length \in StreamLengths}

NextStream ==
  /\ diar.windows < MaxStreamWindows
  /\ \/ \E n \in PcmLens : Diarize(n, <<>>)
     \/ \E n \in PcmLens, out \in StreamOuts : Diarize(n, <<out>>)

SpecStream == InitStream /\ [][NextStream]_vars

\* ------------------------------------------------------------------------
\* Specification: one connection on /asr-multicam or /asr-smart-store that
\* starts streams for two customers, sends chunks and stops, long enough
\* for two customers served one after the other; the results tasks do not
\* run
\* ------------------------------------------------------------------------
InitSerial == InitWith(MaxSerialMsgs)

NextSerial ==
  \/ \E e \in {"multicam", "smart"} : Accept(1, e)
  \/ ClientDisconnect(1)
  \/ RecvDisconnect(1)
  \/ \E m \in ChunkStartMsgs : McStart(1, m)
  \/ \E m \in ChunkStartMsgs : SsStart(1, m)
  \/ ChunkMeta(1, 1)
  \/ ChunkBytes(1, FALSE)
  \/ NonJsonText(1)
  \/ FallbackBytes(1, FALSE)
  \/ WrongFrame(1)
  \/ McStop(1)
  \/ SsStop(1)
  \/ StopFlush(1)
  \/ McStopSend(1)
  \/ SsStopSend(1)
  \/ FinAwait(1)
  \/ FinCleanup(1)

SpecSerial == InitSerial /\ [][NextSerial]_vars
\* ------------------------------------------------------------------------
\* Properties of the multi-customer registry
\* ------------------------------------------------------------------------
Terminated(c) == pc[c] \in {"done", "crashed"}

\* The connections whose handler still runs and that registered customer k
\* of session s with an accepted audio_stream_start.
LiveStarters(s, k) ==
  {c \in Conns : /\ ~Terminated(c)
                 /\ \E t \in 1..Len(tasks) : /\ tasks[t].conn = c
                                             /\ tasks[t].kind = "multicam"
                                             /\ tasks[t].start.session = s
                                             /\ tasks[t].start.customer = k}

\* C1: in every reachable state, a session of active_sessions has aggregate
\* status closed if and only if every customer entry of it has status closed
\* or stopped.
C1_ClosedIffAllCustomersClosed ==
  \A s \in DOMAIN active_sessions :
    (active_sessions[s].status = "closed")
      <=> AllCustomersClosed(active_sessions[s].customers)

\* C2: a session becomes closed exactly in the step in which its last
\* active customer becomes closed or stopped, and once closed it stays
\* closed.
C2_Step ==
  \A s \in DOMAIN active_sessions' :
    LET was == s \in DOMAIN active_sessions
        becomesClosed == /\ active_sessions'[s].status = "closed"
                         /\ ~(was /\ active_sessions[s].status = "closed")
        lastCustomerEnds == /\ was
                            /\ ~AllCustomersClosed(active_sessions[s].customers)
                            /\ AllCustomersClosed(active_sessions'[s].customers)
        staysClosed == (was /\ active_sessions[s].status = "closed")
                         => active_sessions'[s].status = "closed"
    IN (becomesClosed <=> lastCustomerEnds) /\ staysClosed

C2_ClosedExactlyAtLastCustomer == [][C2_Step]_vars

\* C3: no customer entry is active without a live connection that started
\* it, and a session none of whose customers has a live connection is
\* closed.
C3_NoActiveCustomerWithoutConnection ==
  \A s \in DOMAIN active_sessions :
    LET customers == active_sessions[s].customers
    IN /\ \A k \in DOMAIN customers :
            customers[k].status = "active" => LiveStarters(s, k) # {}
       /\ (\A k \in DOMAIN customers : LiveStarters(s, k) = {})
            => active_sessions[s].status = "closed"

\* ------------------------------------------------------------------------
\* Properties of the connection handlers' cleanup
\* ------------------------------------------------------------------------
\* The registry entry of the stream that the results task of connection c
\* was started for shows that the stream has ended.
RegistryUpdated(c) ==
  LET m == tasks[loc[c].task].start
  IN /\ m.session \in DOMAIN active_sessions
     /\ m.customer \in DOMAIN active_sessions[m.session].customers
     /\ active_sessions[m.session].customers[m.customer].status
          \in {"closed", "stopped"}

\* C4: when a handler on which a stream was started has returned, whatever
\* the exit path, its results task was cancelled and awaited, the empty
\* frame was sent to the pipeline, the pipeline's cleanup was called and
\* (on /asr-multicam) the customer's registry status was updated.
C4_AllCleanupStepsRun ==
  \A c \in Conns :
    (Terminated(c) /\ exit[c].started) =>
      /\ loc[c].task # 0 /\ TaskDone(loc[c].task)
      /\ Flushed(exit[c].proc)
      /\ pipes[exit[c].proc].cleanups >= 1
      /\ (ep[c] = "multicam" => RegistryUpdated(c))

\* C5: a handler that was left by a client disconnect while a stream was
\* started has called cleanup on that stream's pipeline by the time it
\* returns.
C5_DisconnectReleasesPipeline ==
  \A c \in Conns :
    (Terminated(c) /\ exit[c].cause = "disconnect" /\ exit[c].started)
      => pipes[exit[c].proc].cleanups >= 1

\* The audio_stream_ready and audio_stream_stopped messages sent on c.
Controls(c) ==
  LET IsControl(m) == m.type \in {"audio_stream_ready", "audio_stream_stopped"}
  IN SelectSeq(sent[c], IsControl)

\* C6: an audio_stream_stop sends the empty frame to the pipeline of a
\* started stream at most once however often the stop is repeated, and a
\* handler that has done so and waits for the next message has sent
\* audio_stream_stopped after its last audio_stream_ready.
C6_FlushExactlyOnce ==
  \A c \in Conns :
    ep[c] \in {"multicam", "smart"} =>
      /\ \A p \in 1..Len(pipes) : pipes[p].conn = c => pipes[p].stops <= 1
      /\ (pc[c] = "recv" /\ loc[c].proc # 0 /\ pipes[loc[c].proc].stops >= 1) =>
           /\ Controls(c) # <<>>
           /\ Controls(c)[Len(Controls(c))].type = "audio_stream_stopped"

\* ------------------------------------------------------------------------
\* Properties of the results-emission tasks
\* ------------------------------------------------------------------------
\* The positions in sent[c] of the messages of the given type for pipeline p.
SentAt(c, p, type) ==
  {i \in 1..Len(sent[c]) : sent[c][i].type = type /\ sent[c][i].pipe = p}

\* The results of pipeline p sent on c, in the order they were sent.
SentResults(c, p) ==
  LET IsResult(m) == m.type = "result" /\ m.pipe = p
  IN SelectSeq(sent[c], IsResult)

\* C7: once a stream was ended by audio_stream_stop, its pipeline has
\* drained and its results task runs no more while the client is still
\* connected, exactly one ready_to_stop with the stream's identifiers was
\* sent, after every result of the stream.
C7_ReadyToStopAfterDrain ==
  \A t \in 1..Len(tasks) :
    LET c == tasks[t].conn
        p == tasks[t].pipe
    IN (/\ tasks[t].kind # "asr" /\ pipes[p].stops >= 1 /\ Drained(p)
        /\ TaskDone(t) /\ open[c]) =>
         /\ Cardinality(SentAt(c, p, "ready_to_stop")) = 1
         /\ \A i \in SentAt(c, p, "ready_to_stop") :
              /\ sent[c][i].session = tasks[t].start.session
              /\ sent[c][i].customer = tasks[t].start.customer
              /\ sent[c][i].stream = tasks[t].start.stream
              /\ \A j \in SentAt(c, p, "result") : j < i

\* C8: results are sent in the order the pipeline produced them, and a
\* results task that runs no more while its connection is open and the
\* handler is still in its message loop has sent every result the pipeline
\* produced.
C8_EveryResultSentInOrder ==
  \A t \in 1..Len(tasks) :
    LET c == tasks[t].conn
        p == tasks[t].pipe
        rs == SentResults(c, p)
    IN tasks[t].kind # "asr" =>
         /\ \A i \in 1..Len(rs) : rs[i].rid = i
         /\ (TaskDone(t) /\ open[c] /\ exit[c].cause = "none" /\ ~Terminated(c))
              => Len(rs) = Len(pipes[p].results)

C10_NoWarningForIncreasingSeq ==
  \A p \in 1..Len(pipes) :
    (\A i \in 1..Len(pipes[p].seqs) : pipes[p].seqs[i] = i)
      => \A i \in 1..Len(warnings[pipes[p].conn]) :
           warnings[pipes[p].conn][i].proc # p

\* The warnings emitted for the i-th audio_chunk_meta of stream p.
WarningsAt(p, i) ==
  {j \in 1..Len(warnings[pipes[p].conn]) :
     /\ warnings[pipes[p].conn][j].proc = p
     /\ warnings[pipes[p].conn][j].at = i}

\* C11: for every chunk after the first of a stream, a seq that differs from
\* the previous seq plus one has caused exactly one warning, citing the
\* expected and the observed value, a seq that follows the previous one has
\* caused none, and the expected value is the last observed seq plus one;
\* whatever the seq of the first chunk was.
C11_GapWarnsExactlyOnce ==
  \A p \in 1..Len(pipes) :
    LET c == pipes[p].conn
        s == pipes[p].seqs
    IN /\ \A i \in 2..Len(s) :
            IF s[i] # s[i-1] + 1
            THEN /\ Cardinality(WarningsAt(p, i)) = 1
                 /\ \A j \in WarningsAt(p, i) :
                      /\ warnings[c][j].expected = s[i-1] + 1
                      /\ warnings[c][j].got = s[i]
            ELSE WarningsAt(p, i) = {}
       /\ (loc[c].proc = p /\ loc[c].started /\ s # <<>>)
            => loc[c].expected_seq = s[Len(s)] + 1

\* C12: when a stream has started and none of its chunks was received yet
\* the expected-sequence counter is 1, and the first audio_chunk_meta of a
\* stream causes no warning whatever its seq.
C12_FirstChunkNeverWarns ==
  \A p \in 1..Len(pipes) :
    LET c == pipes[p].conn
    IN /\ WarningsAt(p, 1) = {}
       /\ (loc[c].proc = p /\ loc[c].started /\ pipes[p].seqs = <<>>
             /\ ~Terminated(c))
            => loc[c].expected_seq = 1

\* C11 as amended: for every chunk after the first of a stream, a seq that
\* differs from the expected value (the previous seq plus one) has caused
\* exactly one warning citing both values when the expected value was
\* greater than 1, and no warning otherwise; the expected value is the last
\* observed seq plus one; and every non-empty frame was forwarded.
C11_GapWarnsWhenExpectedAboveOne ==
  \A p \in 1..Len(pipes) :
    LET c == pipes[p].conn
        s == pipes[p].seqs
    IN /\ \A i \in 2..Len(s) :
            IF s[i] # s[i-1] + 1 /\ s[i-1] + 1 > 1
            THEN /\ Cardinality(WarningsAt(p, i)) = 1
                 /\ \A j \in WarningsAt(p, i) :
                      /\ warnings[c][j].expected = s[i-1] + 1
                      /\ warnings[c][j].got = s[i]
            ELSE WarningsAt(p, i) = {}
       /\ (loc[c].proc = p /\ loc[c].started /\ s # <<>>)
            => loc[c].expected_seq = s[Len(s)] + 1
       /\ \A i \in 1..Len(pipes[p].arrived) :
            pipes[p].arrived[i] # 0 =>
              \E k \in 1..Len(pipes[p].audio) :
                pipes[p].audio[k] = pipes[p].arrived[i]

\* A stream whose second chunk caused a warning, whose third chunk followed
\* the second and caused none, and all of whose frames were forwarded.
C11_Witness ==
  \E p \in 1..Len(pipes) :
    /\ Len(pipes[p].seqs) = 3
    /\ pipes[p].seqs[2] # pipes[p].seqs[1] + 1
    /\ pipes[p].seqs[3] = pipes[p].seqs[2] + 1
    /\ Cardinality(WarningsAt(p, 2)) = 1
    /\ WarningsAt(p, 3) = {}
    /\ Len(pipes[p].audio) = 3

\* The non-empty frames that arrived after the audio_chunk_meta messages of
\* stream p, in arrival order.
ChunkFrames(p) ==
  LET NonEmpty(f) == f # 0
  IN SelectSeq(pipes[p].arrived, NonEmpty)

\* The frames handed to pipeline p that arrived after an audio_chunk_meta,
\* in the order they were handed over.
ForwardedChunkFrames(p) ==
  LET IsChunkFrame(f) ==
        f # 0 /\ \E i \in 1..Len(pipes[p].arrived) : pipes[p].arrived[i] = f
  IN SelectSeq(pipes[p].audio, IsChunkFrame)

\* C13: within one stream, the non-empty frames handed to the pipeline are
\* the non-empty frames that followed the stream's audio_chunk_meta
\* messages, in arrival order, none dropped, duplicated or reordered,
\* whatever the seq values were and whether or not a warning was emitted.
C13_FramesForwardedInArrivalOrder ==
  \A p \in 1..Len(pipes) : ForwardedChunkFrames(p) = ChunkFrames(p)

\* A stream whose second chunk caused a warning and whose two non-empty
\* frames both reached the pipeline.
C13_Witness ==
  \E p \in 1..Len(pipes) :
    /\ Len(ChunkFrames(p)) >= 2
    /\ WarningsAt(p, 2) # {}
    /\ Len(pipes[p].audio) >= 2
    /\ pipes[p].audio[1] < pipes[p].audio[2]

\* ------------------------------------------------------------------------
\* Properties of the control-message handling
\* ------------------------------------------------------------------------
\* An audio_stream_start with identifiers m lacks a field endpoint e requires.
LacksRequired(e, m) ==
  IF e = "multicam"
  THEN ~Truthy(m.stream) \/ (~Truthy(m.customer) /\ ~Truthy(m.stream))
  ELSE ~Truthy(m.session) \/ ~Truthy(m.customer) \/ ~Truthy(m.stream)

\* A step in which connection c handles an audio_stream_start that lacks a
\* required field, its data being an object without it or no object at all.
IncompleteStart(c) ==
  \/ \E m \in StartMsgs : LacksRequired("multicam", m) /\ McStart(c, m)
  \/ \E m \in StartMsgs : LacksRequired("smart", m) /\ SsStart(c, m)
  \/ StartBadData(c)

\* C14: an audio_stream_start that lacks a required field is answered with
\* exactly one error message, creates no pipeline, no results task and no
\* registry entry, sends no audio_stream_ready, and leaves the handler in
\* its message loop.
C14_RejectedStartStep ==
  \A c \in Conns :
    IncompleteStart(c) =>
      /\ sent'[c] = Append(sent[c], ErrorMsg(RequiredField))
      /\ pipes' = pipes
      /\ tasks' = tasks
      /\ active_sessions' = active_sessions
      /\ smart_store_sessions' = smart_store_sessions
      /\ pc'[c] = "recv"

C14_RejectedStartKeepsConnection == [][C14_RejectedStartStep]_vars

\* A stream is currently started on connection c: its last control reply
\* was audio_stream_ready.
StreamStarted(c) ==
  /\ Controls(c) # <<>>
  /\ Controls(c)[Len(Controls(c))].type = "audio_stream_ready"

\* The handler of c waits for the binary frame of an accepted
\* audio_chunk_meta only while a stream is started.
C15_AcceptedOnlyWhenStarted ==
  \A c \in Conns : pc[c] = "recv_bytes" => StreamStarted(c)

\* The steps of audio_chunk_meta and of the frame that follows it.
C15_Step ==
  \A c \in Conns :
    LET p == loc[c].proc
        meta == \E seq \in Seqs : ChunkMeta(c, seq)
    IN /\ (meta /\ ~StreamStarted(c)) =>
            /\ sent'[c] = Append(sent[c], ErrorMsg(StartFirst))
            /\ pc'[c] = "recv"
            /\ pipes' = pipes
            /\ loc'[c].expected_seq = loc[c].expected_seq
       /\ (meta /\ StreamStarted(c)) =>
            /\ pc'[c] = "recv_bytes"
            /\ sent' = sent
            /\ pipes'[p].audio = pipes[p].audio
            /\ pipes'[p].arrived = pipes[p].arrived
       /\ (pc[c] = "recv_bytes" /\ pc'[c] = "recv") =>
            /\ Len(pipes'[p].arrived) = Len(pipes[p].arrived) + 1
            /\ LET f == pipes'[p].arrived[Len(pipes'[p].arrived)]
               IN pipes'[p].audio = IF f # 0 THEN Append(pipes[p].audio, f)
                                    ELSE pipes[p].audio
            /\ \A q \in 1..Len(pipes) : q # p => pipes'[q] = pipes[q]

MalformedInput(c) ==
  \/ NonJsonText(c)
  \/ NonObjectJson(c)
  \/ UnknownType(c)
  \/ pc[c] = "recv_bytes" /\ WrongFrame(c)

\* C16: every malformed or unexpected control input is answered with an
\* error message and leaves the handler in its message loop, with no
\* cleanup triggered.
C16_MalformedInputStep ==
  \A c \in Conns :
    MalformedInput(c) =>
      /\ Len(sent'[c]) = Len(sent[c]) + 1
      /\ sent'[c][Len(sent'[c])].type = "error"
      /\ pc'[c] = "recv"
      /\ exit'[c] = exit[c]
      /\ tasks' = tasks

C16_MalformedInputKeepsConnection == [][C16_MalformedInputStep]_vars

\* A step in which the handler of c, waiting for a control message, is
\* sent a binary frame that no audio_chunk_meta announced.
BareBinaryFrame(c) ==
  /\ ep[c] \in {"multicam", "smart"}
  /\ pc[c] = "recv"
  /\ WrongFrame(c)

\* C17: a binary frame without a preceding audio_chunk_meta is forwarded to
\* the pipeline of the started stream, and answered with an error when no
\* stream is started; in both cases the handler stays in its message loop.
C17_BareFrameStep ==
  \A c \in Conns :
    BareBinaryFrame(c) =>
      /\ pc'[c] = "recv"
      /\ exit'[c] = exit[c]
      /\ IF StreamStarted(c)
         THEN /\ Len(pipes'[loc[c].proc].audio)
                   = Len(pipes[loc[c].proc].audio) + 1
              /\ sent' = sent
         ELSE /\ Len(sent'[c]) = Len(sent[c]) + 1
              /\ sent'[c][Len(sent'[c])].type = "error"
              /\ pipes' = pipes

C17_BareFrameAcceptedWhenStarted == [][C17_BareFrameStep]_vars

\* ------------------------------------------------------------------------
\* Properties of the keyword notifications
\* ------------------------------------------------------------------------
EventCodes == {"SAY_HELLO", "SAY_SORRY"}

\* A finalized line with this text contains the trigger phrase of the code.
Triggers(text, code) ==
  \/ code = "SAY_HELLO" /\ HasHello(text)
  \/ code = "SAY_SORRY" /\ HasSorry(text)

\* The notifications sent for a customer id and an event code by any
\* results task of connection c, as positions in api_calls[c].
CallsFor(c, customer, code) ==
  {k \in 1..Len(api_calls[c]) : /\ api_calls[c][k].customer = customer
                                /\ api_calls[c][k].event = code}

\* The results task t has stopped although its connection is open and its
\* handler is still in the message loop.
StoppedEarly(t) ==
  /\ TaskDone(t)
  /\ open[tasks[t].conn]
  /\ exit[tasks[t].conn].cause = "none"
  /\ ~Terminated(tasks[t].conn)

\* C18: when two consecutive lines of a stream contain the same trigger
\* phrase, the stream's results task dispatches at most one notification
\* for that event code, the notification exists once the first line was
\* handled, and both lines are handled while the connection is open.
C18_SecondMatchDispatchesNothing ==
  \A t \in 1..Len(tasks) : \A code \in EventCodes :
    LET c == tasks[t].conn
        p == tasks[t].pipe
        r == pipes[p].results
    IN (tasks[t].kind # "asr") =>
         \A i \in 1..(Len(r) - 1) :
           (Triggers(r[i], code) /\ Triggers(r[i+1], code)) =>
             /\ Cardinality({k \in CallsFor(c, tasks[t].customer, code) :
                               api_calls[c][k].task = t}) <= 1
             /\ pipes[p].yielded >= i
                  => CallsFor(c, tasks[t].customer, code) # {}
             /\ ~StoppedEarly(t)

\* The notifications sent for a customer id and an event code on any
\* connection, as pairs of connection and position.
AllCallsFor(customer, code) ==
  {ck \in Conns \X (1..(MaxResults + 2)) :
     /\ ck[2] <= Len(api_calls[ck[1]])
     /\ api_calls[ck[1]][ck[2]].customer = customer
     /\ api_calls[ck[1]][ck[2]].event = code}

\* C19: for each customer id and each keyword event code at most one
\* notification was dispatched, whatever results and streams the customer
\* had.
C19_AtMostOncePerCustomer ==
  \A t \in 1..Len(tasks) : \A code \in EventCodes :
    Cardinality(AllCallsFor(tasks[t].customer, code)) <= 1


\* Result rid of pipeline p was sent to the client of connection c.
ResultSent(c, p, rid) ==
  \E i \in 1..Len(sent[c]) : /\ sent[c][i].type = "result"
                             /\ sent[c][i].pipe = p
                             /\ sent[c][i].rid = rid

\* Results task t has dispatched a notification.
Dispatched(t) ==
  /\ t \in 1..Len(tasks)
  /\ \E k \in 1..Len(api_calls[tasks[t].conn]) :
       api_calls[tasks[t].conn][k].task = t

\* Task t was cancelled by its connection handler, or has returned.
Stopped(t) == tasks[t].cancel \/ TaskDone(t)

\* Task t has dispatched a notification, and result rid of its pipeline
\* exists and has not been sent.
Owed(t, rid) ==
  /\ Dispatched(t)
  /\ rid \in 1..Len(pipes[tasks[t].pipe].results)
  /\ ~ResultSent(tasks[t].conn, tasks[t].pipe, rid)

\* Result rid of task t's pipeline was sent, or the task was stopped.
SentOrStopped(t, rid) ==
  /\ t \in 1..Len(tasks)
  /\ ResultSent(tasks[t].conn, tasks[t].pipe, rid) \/ Stopped(t)

\* The results a task that dispatched a notification has sent are the
\* results of its pipeline, in order and without a gap.
C20_SentInOrder ==
  \A t \in 1..Len(tasks) :
    LET rs == SentResults(tasks[t].conn, tasks[t].pipe)
    IN Dispatched(t) =>
         /\ Len(rs) <= Len(pipes[tasks[t].pipe].results)
         /\ \A i \in 1..Len(rs) : rs[i].rid = i

\* A step in which a notification task ends (answered or failed) changes
\* nothing of the results tasks, the connection handlers or what was sent.
C20_AnswerStep ==
  (\E c \in Conns : /\ Len(api_calls'[c]) = Len(api_calls[c])
                    /\ api_calls'[c] # api_calls[c])
    => UNCHANGED <<tasks, pc, open, loc, exit, sent, pipes>>

\* C20: notification dispatch never blocks result emission.  Whatever the
\* collaborator does (it answers, answers late, fails, or never answers),
\* every result of a stream whose task has dispatched a notification is
\* eventually sent to the client unless the task is cancelled or returns
\* because the connection ended, the results are sent in order, and the end
\* of a notification task, failure included, leaves the results handler and
\* the connection handler untouched.
C20_NotificationNeverBlocksEmission ==
  /\ \A t \in EmitTasks, rid \in 1..MaxResults :
       Owed(t, rid) ~> SentOrStopped(t, rid)
  /\ []C20_SentInOrder
  /\ [][C20_AnswerStep]_vars

\* A stream's first line triggered a notification, the collaborator has not
\* answered it or the request failed, and the stream's next result was
\* sent.
C20_Witness ==
  \E t \in 1..Len(tasks) :
    /\ Len(pipes[tasks[t].pipe].results) >= 2
    /\ HasHello(pipes[tasks[t].pipe].results[1])
    /\ \E k \in 1..Len(api_calls[tasks[t].conn]) :
         /\ api_calls[tasks[t].conn][k].task = t
         /\ api_calls[tasks[t].conn][k].event = "SAY_HELLO"
         /\ api_calls[tasks[t].conn][k].status \in {"pending", "failed"}
    /\ ResultSent(tasks[t].conn, tasks[t].pipe, 2)

\* ------------------------------------------------------------------------
\* Properties of the end of a stream
\* ------------------------------------------------------------------------
\* The SESSION_END notifications results task t has dispatched, as
\* positions in the calls of its connection.
SessionEnds(t) ==
  {k \in 1..Len(api_calls[tasks[t].conn]) :
     /\ api_calls[tasks[t].conn][k].task = t
     /\ api_calls[tasks[t].conn][k].event = "SESSION_END"}

\* C21: the results task of a started stream of /asr-multicam or
\* /asr-smart-store never dispatches SESSION_END twice, and once the task
\* has ended, whichever way (generator drained, send failed after a
\* disconnect, cancelled by the cleanup, exception in the handler), it has
\* dispatched SESSION_END exactly once.
C21_SessionEndExactlyOnce ==
  \A t \in 1..Len(tasks) :
    tasks[t].kind # "asr" =>
      /\ Cardinality(SessionEnds(t)) <= 1
      /\ TaskDone(t) => Cardinality(SessionEnds(t)) = 1

\* The results handlers that run for customer id k: their code before the
\* loop has run and they have not ended.
RunningHandlers(k) ==
  {t \in 1..Len(tasks) : /\ tasks[t].kind # "asr"
                         /\ tasks[t].customer = k
                         /\ tasks[t].state # "new"
                         /\ ~TaskDone(t)}

\* C22: customer_data holds a keyword-state record only for a customer id
\* for which a results handler is running: once a stream's handler has
\* ended, by whatever path, the record is gone, and a later stream of the
\* same customer id starts from an empty detected-keyword set.
C22_RecordDisposedAtEnd ==
  \A k \in DOMAIN customer_data : RunningHandlers(k) # {}

\* ------------------------------------------------------------------------
\* Properties of concurrent streams
\* ------------------------------------------------------------------------
TasksOf(c) == {t \in 1..Len(tasks) : tasks[t].conn = c}

\* What belongs to connection c alone: its handler's position and locals,
\* what was sent on it, and its results tasks.
Own(c) ==
  <<pc[c], open[c], loc[c], exit[c], sent[c],
    [t \in TasksOf(c) |-> tasks[t]]>>

\* The state of the streams of connection c whose results handler runs:
\* the registry entry of the stream the handler serves, the keyword-dedup
\* state and transcript of each handler, and the pipelines.
StreamState(c) ==
  <<IF loc[c].started /\ loc[c].session \in DOMAIN active_sessions
       /\ loc[c].customer \in DOMAIN active_sessions[loc[c].session].customers
    THEN active_sessions[loc[c].session].customers[loc[c].customer]
    ELSE None,
    [t \in {u \in TasksOf(c) : tasks[u].state \in {"waiting", "sending"}}
       |-> infos[tasks[t].info]],
    [p \in {q \in 1..Len(pipes) : pipes[q].conn = c}
       |-> [audio |-> pipes[p].audio, cleanups |-> pipes[p].cleanups]]>>

\* A step of connection c (its handler or one of its results tasks) that
\* is not also a step of connection d leaves the streams of d as they were.
C23_Step ==
  \A c \in Conns, d \in Conns :
    (c # d /\ Own(c)' # Own(c) /\ Own(d)' = Own(d))
      => StreamState(d)' = StreamState(d)

\* C23: isolation between streams.  No step of one connection (a start, a
\* result, a failure, a disconnect, its cleanup) changes the registry
\* entry, the keyword-dedup state, the transcript or the pipeline of a
\* stream that another connection is running, also when the two streams
\* are in different sessions and use the same customer id.
C23_StreamsIsolated == [][C23_Step]_vars

\* Every session of the registry has a customer, and every customer entry
\* is complete: a stream id and one of the three statuses.
C24_NoHalfWrittenEntry ==
  \A s \in DOMAIN active_sessions :
    /\ DOMAIN active_sessions[s].customers # {}
    /\ active_sessions[s].status \in {"active", "closed"}
    /\ \A k \in DOMAIN active_sessions[s].customers :
         /\ Truthy(active_sessions[s].customers[k].stream_id)
         /\ active_sessions[s].customers[k].status
              \in {"active", "stopped", "closed"}

\* A step that creates a session also inserts its first customer, as
\* active; a step that marks a customer closed also records the
\* all-customers-closed check made on the customers as they are after the
\* mark.
C24_Step ==
  \A s \in DOMAIN active_sessions' :
    LET new == active_sessions'[s]
    IN IF s \notin DOMAIN active_sessions
       THEN /\ Cardinality(DOMAIN new.customers) = 1
            /\ \A k \in DOMAIN new.customers : new.customers[k].status = "active"
            /\ new.status = "active"
       ELSE LET old == active_sessions[s]
                marked == {k \in DOMAIN new.customers :
                             /\ new.customers[k].status = "closed"
                             /\ k \in DOMAIN old.customers
                             /\ old.customers[k].status # "closed"}
            IN marked # {} =>
                 new.status = IF AllCustomersClosed(new.customers)
                              THEN "closed" ELSE old.status

LiveStreams(s, k) ==
  {c \in Conns : /\ ep[c] = "multicam"
                 /\ pc[c] \in {"recv", "recv_bytes", "recv_bytes_fb"}
                 /\ loc[c].started
                 /\ loc[c].session = s
                 /\ loc[c].customer = k
                 /\ pipes[loc[c].proc].cleanups = 0}

\* C25: at any time at most one connection streams for a given customer of
\* a session, and a customer whose registry status is closed or stopped
\* has no connection that still streams for it.
C25_OneLiveStreamPerCustomer ==
  \A s \in DOMAIN active_sessions :
    \A k \in DOMAIN active_sessions[s].customers :
      /\ Cardinality(LiveStreams(s, k)) <= 1
      /\ active_sessions[s].customers[k].status \in {"closed", "stopped"}
           => LiveStreams(s, k) = {}

\* ------------------------------------------------------------------------
\* Properties of the registration of a customer
\* ------------------------------------------------------------------------
\* Connection c sends an audio_stream_ready reply in this step: the step
\* is an accepted audio_stream_start.
AcceptedStart(c) ==
  /\ Len(sent'[c]) = Len(sent[c]) + 1
  /\ sent'[c][Len(sent'[c])].type = "audio_stream_ready"

\* The reply of that step.
ReadyReply(c) == sent'[c][Len(sent'[c])]

\* An accepted start of (s, k) with stream id st leaves the entry of (s, k)
\* with st and status active, whatever it held before; the other customers
\* of s and every other session are as before; and registering (s, k, st)
\* once more would change nothing.
C26_Step ==
  \A c \in Conns :
    AcceptedStart(c) =>
      LET s == ReadyReply(c).session
          k == ReadyReply(c).customer
          st == ReadyReply(c).stream
          olds == IF s \in DOMAIN active_sessions
                  THEN DOMAIN active_sessions[s].customers ELSE {}
      IN /\ s \in DOMAIN active_sessions'
         /\ DOMAIN active_sessions'[s].customers = olds \cup {k}
         /\ active_sessions'[s].customers[k] =
              [stream_id |-> st, status |-> "active"]
         /\ \A k2 \in olds \ {k} :
              active_sessions'[s].customers[k2] = active_sessions[s].customers[k2]
         /\ DOMAIN active_sessions' = DOMAIN active_sessions \cup {s}
         /\ \A s2 \in DOMAIN active_sessions \ {s} :
              active_sessions'[s2] = active_sessions[s2]
         /\ UpsertCustomer(active_sessions', s, k, st) = active_sessions'

\* C26: registering a customer is idempotent.  An accepted
\* audio_stream_start for a (session id, customer id) that has an entry
\* replaces the entry's metadata and sets its status to active, the same
\* start applied twice leaves the registry as applied once, and the other
\* customers of the session and all other sessions are unchanged.
C26_RegisterIdempotent == [][C26_Step]_vars

\* Customer c1 of session s1 was registered with stream t1 and stopped,
\* and was then registered again with stream t2: its entry holds t2 and is
\* active.
C26_Witness ==
  /\ "s1" \in DOMAIN active_sessions
  /\ "c1" \in DOMAIN active_sessions["s1"].customers
  /\ active_sessions["s1"].customers["c1"] = [stream_id |-> "t2", status |-> "active"]
  /\ \E c \in Conns : \E i \in 1..Len(sent[c]) :
       /\ sent[c][i].type = "audio_stream_stopped"
       /\ sent[c][i].session = "s1"
       /\ sent[c][i].customer = "c1"
       /\ sent[c][i].stream = "t1"

\* ------------------------------------------------------------------------
\* Properties of the diarization backend
\* ------------------------------------------------------------------------
\* C27: a backend whose model failed to load is a no-op that never fails
\* the stream: no call on it raises, diarize runs no inference, and
\* assign_speakers_to_tokens returns the token list it was given, empty or
\* not, with every token's speaker as it was.
C27_FailedLoadIsNoOp ==
  ~diar.diar_model =>
    /\ raised = None
    /\ diar.steps = 0
    /\ tokens.returned = tokens.given

\* The intervals of segment seg and token tok overlap.
Overlap(seg, tok) == seg.start < tok.end /\ tok.start < seg.end

\* The positions of the stored segments that overlap tok.
Overlapping(segs, tok) == {j \in 1..Len(segs) : Overlap(segs[j], tok)}

Last(S) == CHOOSE j \in S : \A m \in S : m <= j

\* A step of assign_speakers_to_tokens gives every token the speaker of
\* the last stored segment that overlaps it, and leaves a token that no
\* segment overlaps, and every token's times, as they were.
C28_Step ==
  (tokens' # tokens /\ raised' = None) =>
    /\ Len(tokens'.returned) = Len(tokens'.given)
    /\ \A i \in 1..Len(tokens'.given) :
         LET tok == tokens'.given[i]
             ov == Overlapping(diar.speaker_segments, tok)
         IN tokens'.returned[i] =
              [tok EXCEPT !.speaker =
                 IF ov = {} THEN tok.speaker
                 ELSE diar.speaker_segments[Last(ov)].speaker]

\* C28: for every token and every stored segment list,
\* assign_speakers_to_tokens sets the token's speaker to the speaker of the
\* last segment in storage order whose interval overlaps the token's, not
\* the first and not the one that overlaps most.
C28_LastOverlappingSegmentWins == [][C28_Step]_vars

\* With the segments (speaker 1, 0-4) and (speaker 2, 4-8), a token that
\* spans 1-6 overlaps the first by three ticks and the second by two, and
\* was given speaker 2.
C28_Witness ==
  /\ diar.speaker_segments = <<[speaker |-> 1, start |-> 0, end |-> 4],
                               [speaker |-> 2, start |-> 4, end |-> 8]>>
  /\ Len(tokens.given) = 1
  /\ tokens.given[1].start = 1
  /\ tokens.returned[1].speaker = 2

\* The first frames of the maximal runs of one speaker in the frame
\* sequence f, and the last frame of the run that starts at frame i.
RunStarts(f) ==
  {i \in 1..Len(f) : i = 1 \/ f[i].speaker # f[i - 1].speaker}

RunEnd(f, i) ==
  CHOOSE j \in i..Len(f) :
    /\ \A m \in i..j : f[m].speaker = f[i].speaker
    /\ j = Len(f) \/ f[j + 1].speaker # f[i].speaker

NthRunStart(f, k) ==
  CHOOSE i \in RunStarts(f) : Cardinality({j \in RunStarts(f) : j <= i}) = k

\* C29: after any sequence of frame predictions was fed, the stored
\* segment list has exactly one segment per maximal run of consecutive
\* frames with the same speaker, in order, from the start of the run's
\* first frame to the end of its last frame.
C29_OneSegmentPerSpeakerRun ==
  diar.attrs =>
    /\ Len(diar.speaker_segments) = Cardinality(RunStarts(fed))
    /\ \A k \in 1..Len(diar.speaker_segments) :
         LET i == NthRunStart(fed, k)
         IN diar.speaker_segments[k] =
              [speaker |-> fed[i].speaker, start |-> fed[i].start,
               end |-> fed[RunEnd(fed, i)].end]

\* Three windows with one speaker throughout were fed and one segment
\* spans all three.
C29_Witness ==
  /\ diar.windows = 3
  /\ Len(fed) = 3 * FramesPerWindow
  /\ Len(diar.speaker_segments) = 1
  /\ diar.speaker_segments[1].start = 0
  /\ diar.speaker_segments[1].end = 3 * WindowTicks

\* The segments the rule "extend the last segment if and only if the frame
\* has its speaker and starts where it ends, append otherwise" builds from
\* the frames f[i..].
RECURSIVE RuleSegments(_, _, _)
RuleSegments(segs, f, i) ==
  IF i > Len(f) THEN segs
  ELSE RuleSegments(
         IF /\ segs # <<>>
            /\ segs[Len(segs)].speaker = f[i].speaker
            /\ segs[Len(segs)].end = f[i].start
         THEN [segs EXCEPT ![Len(segs)].end = f[i].end]
         ELSE Append(segs, f[i]),
         f, i + 1)

\* C30: a frame prediction extends the last stored segment if and only if
\* it has that segment's speaker and is adjacent to it in time; in every
\* other case, the same speaker after a time gap included, a new segment is
\* appended.
C30_ExtendOnlyWhenAdjacent ==
  diar.attrs => diar.speaker_segments = RuleSegments(<<>>, fed, 1)

\* ------------------------------------------------------------------------
\* The stored segments and the rolling buffer
\* ------------------------------------------------------------------------
\* The segments are in non-decreasing order of start and none reaches
\* into the next.
Ordered(segs) ==
  \A k \in 1..(Len(segs) - 1) :
    /\ segs[k].start <= segs[k + 1].start
    /\ segs[k].end <= segs[k + 1].start

\* C31: in every reachable state of a tracker the stored segments are in
\* non-decreasing start-time order and each segment ends at or before the
\* start of the next, whatever number of frames a sub-window brings and
\* whatever processed length feature extraction returns.
C31_SegmentsOrderedDisjoint == diar.attrs => Ordered(diar.speaker_segments)

\* Window k of the samples in arrival order.
NthWindow(k) == [j \in 1..ChunkSize |-> (k - 1) * ChunkSize + j]

C33_OncePerWindow ==
  diar.attrs =>
    /\ diar.advances = diar.windows
    /\ Len(diar.offsets) = diar.windows
    /\ \A k \in 1..(Len(diar.offsets) - 1) : diar.offsets[k] < diar.offsets[k + 1]

\* A step never decreases or resets the accumulator, and changes it only
\* when it removes a window.
C33_Step ==
  /\ diar'.processed_signal_offset >= diar.processed_signal_offset
  /\ diar'.processed_signal_offset # diar.processed_signal_offset
       => diar'.windows > diar.windows

\* C33: processed_signal_offset starts at 0, never decreases and is never
\* reset, and it advances exactly once for every window removed from the
\* buffer, by that window's processed length, so that no window's segment
\* times are computed from the same offset as an earlier window's.
C33_OffsetAdvancesPerWindow ==
  /\ diar.attrs => diar.processed_signal_offset = 0
  /\ []C33_OncePerWindow
  /\ [][C33_Step]_vars

\* A step of assign_speakers_to_tokens leaves the backend's stored state
\* as it was, returns as many tokens as it was given with the times they
\* had, and leaves the speaker of a token as it was when every stored
\* segment ends at or before the token's start or starts at or after its
\* end.
C34_Step ==
  tokens' # tokens =>
    /\ diar'.speaker_segments = diar.speaker_segments
    /\ diar' = [diar EXCEPT !.calls = diar'.calls]
    /\ raised' = None =>
         /\ Len(tokens'.returned) = Len(tokens'.given)
         /\ \A i \in 1..Len(tokens'.given) :
              LET given == tokens'.given[i]
                  returned == tokens'.returned[i]
              IN /\ returned = [given EXCEPT !.speaker = returned.speaker]
                 /\ (\A k \in 1..Len(diar.speaker_segments) :
                       \/ diar.speaker_segments[k].end <= given.start
                       \/ diar.speaker_segments[k].start >= given.end)
                      => returned.speaker = given.speaker

\* C34: assign_speakers_to_tokens never changes the stored segment list,
\* changes no token field other than speaker, and leaves unchanged the
\* speaker of every token that overlaps no segment, where a segment that
\* only touches the token does not count as overlapping.
C34_AssignChangesOnlySpeakers == [][C34_Step]_vars

\* The only stored segment ends at tick 4, where the token starts, and the
\* token came back without a speaker.
C34_Witness ==
  /\ diar.speaker_segments = <<[speaker |-> 1, start |-> 0, end |-> 4]>>
  /\ raised = None
  /\ Len(tokens.given) = 1
  /\ tokens.given[1].start = 4
  /\ tokens.returned[1].speaker = NoSpeaker

\* ------------------------------------------------------------------------
\* Customers served one after the other on one connection
\* ------------------------------------------------------------------------
\* The message this step sent to the client of connection c, NoMsg when it
\* sent none.
SentNow(c) ==
  IF Len(sent'[c]) > Len(sent[c]) THEN sent'[c][Len(sent'[c])] ELSE NoMsg

\* This step handed a non-empty frame to pipeline p.
AudioNow(p) ==
  /\ Len(pipes'[p].audio) > Len(pipes[p].audio)
  /\ pipes'[p].audio[Len(pipes'[p].audio)] # 0

\* The handler of connection c has received an audio_stream_stop.
StopReceived(c) ==
  pc[c] \in {"stop_flush", "stop_send"} \/ exit[c].cause = "stop"

\* On /asr-smart-store the stopped reply leaves the handler at its receive
\* with no stream started and expected_seq 1; a start for either customer
\* is answered with audio_stream_ready and gets a new pipeline that has
\* received nothing; audio goes to the newest pipeline only.  On
\* /asr-multicam no message is received once a stop was.
C35_Step ==
  /\ (ep[1] = "smart" /\ SentNow(1).type = "audio_stream_stopped") =>
       /\ pc'[1] = "recv"
       /\ ~loc'[1].started
       /\ loc'[1].expected_seq = 1
  /\ \A m \in ChunkStartMsgs :
       SsStart(1, m) =>
         /\ SentNow(1) = ReadyMsg(m.session, m.customer, m.stream)
         /\ Len(pipes') = Len(pipes) + 1
         /\ loc'[1].proc = Len(pipes')
         /\ pipes'[Len(pipes')].audio = <<>>
         /\ loc'[1].started
         /\ loc'[1].expected_seq = 1
         /\ pc'[1] = "recv"
  /\ \A p \in 1..Len(pipes) :
       (ep[1] = "smart" /\ AudioNow(p)) => p = Len(pipes) /\ p = loc[1].proc
  /\ (ep[1] = "multicam" /\ StopReceived(1)) =>
       /\ nmsgs' = nmsgs
       /\ pc'[1] \notin {"recv", "recv_bytes", "recv_bytes_fb"}

\* C35: on /asr-smart-store one connection serves several customers one
\* after the other: after audio_stream_stop the connection stays open with
\* no stream started and the expected sequence number back at 1, a
\* following audio_stream_start for another customer is accepted with
\* audio_stream_ready and gets a fresh pipeline, and its audio goes only to
\* that pipeline; on /asr-multicam an audio_stream_stop ends the message
\* loop and no later message is processed.
C35_CustomersServedInTurn == [][C35_Step]_vars

\* Customer c1 streamed a chunk and stopped, then customer c2 started on
\* the same connection and streamed a chunk: each pipeline holds its own
\* customer's frame.
C35_Witness ==
  /\ ep[1] = "smart"
  /\ Len(sent[1]) = 3
  /\ sent[1][1] = ReadyMsg("s1", "c1", "t1")
  /\ sent[1][2].type = "audio_stream_stopped"
  /\ sent[1][3] = ReadyMsg("s1", "c2", "t2")
  /\ Len(pipes) = 2
  /\ pipes[1].audio = <<1, 0>>
  /\ pipes[2].audio = <<2>>
  /\ loc[1].proc = 2

\* ------------------------------------------------------------------------
\* What a connection leaves behind
\* ------------------------------------------------------------------------
\* The stream state of the handler of connection c: the identifiers, the
\* pipeline, the results task and the started flag.
StreamLocals(l) ==
  <<l.session, l.customer, l.stream, l.proc, l.task, l.started>>

\* A step that answers an audio_stream_start with the error reply leaves
\* the stream state of the handler as it was.
C36_Step ==
  SentNow(1) = ErrorMsg(RequiredField) =>
    StreamLocals(loc'[1]) = StreamLocals(loc[1])

\* C36: a rejected audio_stream_start (error reply) leaves the connection's
\* stream state unchanged: the session id, customer id and stream id, the
\* pipeline, the results task and the started flag keep the values of the
\* last accepted start.
C36_RejectedStartChangesNothing == [][C36_Step]_vars

\* The pipelines created by the handler of connection c.
PipesOf(c) == {p \in 1..Len(pipes) : pipes[p].conn = c}

\* C37: no pipeline has cleanup called twice, and when a connection
\* handler has returned every pipeline it created, the ones replaced by a
\* later audio_stream_start included, has had cleanup called exactly once.
C37_EveryPipelineCleanedOnce ==
  /\ \A p \in 1..Len(pipes) : pipes[p].cleanups <= 1
  /\ \A c \in Conns :
       pc[c] = "done" => \A p \in PipesOf(c) : pipes[p].cleanups = 1

\* The results tasks of connection c that have not finished.
Unfinished(c) == {t \in TasksOf(c) : ~TaskDone(t)}

\* C38: on each connection at most one results task is unfinished at any
\* time, and when the connection handler has returned every results task
\* it created has terminated.
C38_OneResultsTaskPerConnection ==
  \A c \in Conns :
    /\ Cardinality(Unfinished(c)) <= 1
    /\ pc[c] = "done" => Unfinished(c) = {}

\* No step hands a non-empty frame to a pipeline that an audio_stream_stop
\* has flushed.
C39_Step ==
  \A p \in 1..Len(pipes) : pipes[p].stops > 0 => ~AudioNow(p)

\* C39: once the empty-audio flush of an audio_stream_stop has been sent
\* to a pipeline, no non-empty audio is ever sent to that pipeline again,
\* whatever messages follow on the connection.
C39_NoAudioAfterFlush == [][C39_Step]_vars

\* The first customer's pipeline was flushed by two stops in a row and
\* received nothing else; the frame sent after the next start is in the
\* second pipeline.
C39_Witness ==
  /\ ep[1] = "smart"
  /\ Len(pipes) = 2
  /\ pipes[1].stops = 2
  /\ pipes[1].audio = <<0, 0>>
  /\ pipes[2].audio = <<1>>

====
